---- MODULE Spec2Model ----
(***************************************************************************)
(* Table reconstruction from OCR word boxes (plan2table).                  *)
(*                                                                         *)
(* Coordinates are integers (pixels).  A value the code computes by a      *)
(* division (a running mean, a midpoint, a ratio of the width) is kept as  *)
(* an exact fraction <<numerator, denominator>> or on a fixed integer      *)
(* scale, and compared by cross-multiplication: the arithmetic is that of  *)
(* the code's formulas over the rationals.                                 *)
(***************************************************************************)
EXTENDS Integers, Sequences, FiniteSets, TLC

VARIABLES
    \* ---- row clustering (cluster_by_y / _cluster_by_y) ----
    words,          \* the word list handed to cluster_by_y, in caller order
    threshold,      \* the threshold argument
    clusters,       \* the list of RowCluster returned by the last call
    clustered,      \* TRUE once cluster_by_y has returned for this word set
    \* ---- output row assembly (build_output_rows) ----
    candidates,     \* the candidate list handed to build_output_rows
    outputRows,     \* the rows returned by the last call
    built,          \* TRUE once build_output_rows has returned
    \* ---- one section of _extract_page_candidate_rows (e055) ----
    section_pc,         \* position in the section's processing
    section_candidates, \* the section's candidate records, in list order
    section_bounds,     \* x_min / x_max of the section's words
    x_centers,          \* the baseline block centers
    line_assist_config, \* mode and min_confidence of LineAssistConfig
    assist_info,        \* the section's assist_info after the gate
    \* ---- infer_column_bounds (raster) ----
    table_words,    \* the word list handed to infer_column_bounds
    side_width,     \* the side_width argument
    column_bounds,  \* the ColumnBounds returned by the last call
    inferred,       \* TRUE once infer_column_bounds has returned
    \* ---- parse_table_candidate (raster) ----
    parse_pc,         \* "loop" while the expansion loop runs, "done" after it
    parse_input,      \* candidate.bbox, the page size and y_cluster
    attempt,          \* the loop variable of range(TABLE_BOTTOM_EXPAND_MAX_TRIES + 1)
    current_bottom,   \* bottom of the next crop (a fraction)
    expand_attempts,  \* the count reported in TableParseResult
    no_growth_streak, \* iterations in a row whose row count did not grow
    prev_row_count,   \* row count of the previous iteration, NoRowCount for None
    rows_result,      \* RowsFromWordsResult of the last OCR call
    final_crop_bbox,  \* the last crop handed to OCR
    ocr_calls,        \* calls of ocr_table_crop made so far
    \* ---- extract_e055_pdf / extract_raster_pdf ----
    extract_pc,  \* "start", "pages", "done" or "raised"
    extract_input,  \* the extractor, whether pdf_path exists, the PDF's page count, the page argument
    target_pages,  \* the list resolve_target_pages returned
    pages_done,  \* the target pages whose loop iteration completed
    rows_by_page,  \* rows each completed page contributed
    csv_written,  \* TRUE once write_csv has run
    raised,  \* the exception that left the function, "" for none
    rasterize_failed_page, \* the page pdftoppm failed on, 0 for none
    \* ---- _collect_image_vertical_lines ----
    image_pc,  \* "call" or "returned"
    image_call,  \* the arguments and the environment of one call
    image_result, \* what the call returned
    \* ---- handle_customer_run ----
    run_pc,  \* the handler's position
    run_input,  \* the two uploads, the environment and what each job will do
    raster_job,  \* "not_started", "running", "succeeded" or "failed"
    vector_job,  \* as raster_job
    unified_job,  \* as raster_job
    response, \* the HTML response: its data-status and data-stage
    \* ---- e251 _detect_anchors ----
    anchor_pc,  \* "call" or "returned"
    anchor_cluster,  \* the row cluster passed in: its row_y and words
    anchors,  \* the anchors returned
    recombined, \* positions (in x order) of the letters joined with the next token
    \* ---- _propagate_equipment_in_section on a source and a continuation row-group ----
    group_pc,  \* "call" or "returned"
    group_before,  \* the records passed in: the source row-group, then the continuation row-group
    group_after, \* the records after the call
    \* ---- detect_table_candidates_from_page_words on the header anchors of a page ----
    detect_pc,  \* "call" or "returned"
    header_anchors,  \* the anchors detect_header_anchors found, in (row_y, x0) order
    page_words,  \* the OCR words of the page
    table_candidates, \* the list detect_table_candidates_from_page_words returned
    \* ---- _extract_page_candidate_rows: the sections of a page ----
    page_pc,  \* "call" or "returned"
    page_clusters,  \* the row clusters of the page in y order
    page_sections,  \* section_clusters of each header, in header order
    page_candidates, \* the candidates the page returned
    \* ---- Parse ----
    stop_reason, \* the test that left the loop, "" while it runs
    \* ---- _propagate_equipment_in_section applied twice ----
    repeat_pc,  \* "assigned", "once" or "twice"
    repeat_rows  \* the section's records

clusterVars == <<words, threshold, clusters, clustered>>

rowsVars == <<candidates, outputRows, built>>

sectionVars == <<section_pc, section_candidates, section_bounds, x_centers,
                 line_assist_config, assist_info>>

boundsVars == <<table_words, side_width, column_bounds, inferred>>

parseVars == <<parse_pc, parse_input, attempt, current_bottom, expand_attempts,
               no_growth_streak, prev_row_count, rows_result, final_crop_bbox, ocr_calls,
               stop_reason>>

extractVars == <<extract_pc, extract_input, target_pages, pages_done, rows_by_page,
                 csv_written, raised, rasterize_failed_page>>

imageLinesVars == <<image_pc, image_call, image_result>>

customerRunVars == <<run_pc, run_input, raster_job, vector_job, unified_job, response>>

anchorsVars == <<anchor_pc, anchor_cluster, anchors, recombined>>

rowGroupsVars == <<group_pc, group_before, group_after>>

detectVars == <<detect_pc, header_anchors, page_words, table_candidates>>

pageVars == <<page_pc, page_clusters, page_sections, page_candidates>>

repeatVars == <<repeat_pc, repeat_rows>>

vars == <<clusterVars, rowsVars, sectionVars, boundsVars, parseVars, extractVars,
          imageLinesVars, customerRunVars, anchorsVars, rowGroupsVars, detectVars,
          pageVars, repeatVars>>

\* the variables of a component while another component is exercised
IdleCluster ==
    /\ words = <<>>
    /\ threshold = 0
    /\ clusters = <<>>
    /\ clustered = FALSE

IdleRows ==
    /\ candidates = <<>>
    /\ outputRows = <<>>
    /\ built = FALSE

IdleSection ==
    /\ section_pc = "idle"
    /\ section_candidates = <<>>
    /\ section_bounds = [x_min |-> 0, x_max |-> 0]
    /\ x_centers = <<>>
    /\ line_assist_config = [mode |-> "off", min_confidence |-> <<0, 1>>]
    /\ assist_info = <<>>

IdleBounds ==
    /\ table_words = <<>>
    /\ side_width = 0
    /\ column_bounds = <<>>
    /\ inferred = FALSE

IdleParse ==
    /\ parse_pc = "idle"
    /\ parse_input = <<>>
    /\ attempt = 0
    /\ current_bottom = <<0, 1>>
    /\ expand_attempts = 0
    /\ no_growth_streak = 0
    /\ prev_row_count = 0
    /\ rows_result = <<>>
    /\ final_crop_bbox = <<>>
    /\ ocr_calls = 0
    /\ stop_reason = ""

IdleExtract ==
    /\ extract_pc = "idle"
    /\ extract_input = <<>>
    /\ target_pages = <<>>
    /\ pages_done = <<>>
    /\ rows_by_page = <<>>
    /\ csv_written = FALSE
    /\ raised = ""
    /\ rasterize_failed_page = 0

IdleImageLines ==
    /\ image_pc = "idle"
    /\ image_call = <<>>
    /\ image_result = <<>>

IdleCustomerRun ==
    /\ run_pc = "idle"
    /\ run_input = <<>>
    /\ raster_job = "idle"
    /\ vector_job = "idle"
    /\ unified_job = "idle"
    /\ response = <<>>

IdleAnchors ==
    /\ anchor_pc = "idle"
    /\ anchor_cluster = <<>>
    /\ anchors = <<>>
    /\ recombined = {}

IdleRowGroups ==
    /\ group_pc = "idle"
    /\ group_before = <<>>
    /\ group_after = <<>>

IdleDetect ==
    /\ detect_pc = "idle"
    /\ header_anchors = <<>>
    /\ page_words = {}
    /\ table_candidates = <<>>

IdlePage ==
    /\ page_pc = "idle"
    /\ page_clusters = <<>>
    /\ page_sections = <<>>
    /\ page_candidates = <<>>

IdleRepeat ==
    /\ repeat_pc = "idle"
    /\ repeat_rows = <<>>

notClusterVars == <<rowsVars, sectionVars, boundsVars, parseVars, extractVars,
                      imageLinesVars, customerRunVars, anchorsVars, rowGroupsVars,
                      detectVars, pageVars, repeatVars>>

IdleNotCluster ==
    /\ IdleRows
    /\ IdleSection
    /\ IdleBounds
    /\ IdleParse
    /\ IdleExtract
    /\ IdleImageLines
    /\ IdleCustomerRun
    /\ IdleAnchors
    /\ IdleRowGroups
    /\ IdleDetect
    /\ IdlePage
    /\ IdleRepeat

notRowsVars == <<clusterVars, sectionVars, boundsVars, parseVars, extractVars,
                   imageLinesVars, customerRunVars, anchorsVars, rowGroupsVars, detectVars,
                   pageVars, repeatVars>>

IdleNotRows ==
    /\ IdleCluster
    /\ IdleSection
    /\ IdleBounds
    /\ IdleParse
    /\ IdleExtract
    /\ IdleImageLines
    /\ IdleCustomerRun
    /\ IdleAnchors
    /\ IdleRowGroups
    /\ IdleDetect
    /\ IdlePage
    /\ IdleRepeat

notSectionVars == <<clusterVars, rowsVars, boundsVars, parseVars, extractVars,
                      imageLinesVars, customerRunVars, anchorsVars, rowGroupsVars,
                      detectVars, pageVars, repeatVars>>

IdleNotSection ==
    /\ IdleCluster
    /\ IdleRows
    /\ IdleBounds
    /\ IdleParse
    /\ IdleExtract
    /\ IdleImageLines
    /\ IdleCustomerRun
    /\ IdleAnchors
    /\ IdleRowGroups
    /\ IdleDetect
    /\ IdlePage
    /\ IdleRepeat

notBoundsVars == <<clusterVars, rowsVars, sectionVars, parseVars, extractVars,
                     imageLinesVars, customerRunVars, anchorsVars, rowGroupsVars,
                     detectVars, pageVars, repeatVars>>

IdleNotBounds ==
    /\ IdleCluster
    /\ IdleRows
    /\ IdleSection
    /\ IdleParse
    /\ IdleExtract
    /\ IdleImageLines
    /\ IdleCustomerRun
    /\ IdleAnchors
    /\ IdleRowGroups
    /\ IdleDetect
    /\ IdlePage
    /\ IdleRepeat

notParseVars == <<clusterVars, rowsVars, sectionVars, boundsVars, extractVars,
                    imageLinesVars, customerRunVars, anchorsVars, rowGroupsVars,
                    detectVars, pageVars, repeatVars>>

IdleNotParse ==
    /\ IdleCluster
    /\ IdleRows
    /\ IdleSection
    /\ IdleBounds
    /\ IdleExtract
    /\ IdleImageLines
    /\ IdleCustomerRun
    /\ IdleAnchors
    /\ IdleRowGroups
    /\ IdleDetect
    /\ IdlePage
    /\ IdleRepeat

notExtractVars == <<clusterVars, rowsVars, sectionVars, boundsVars, parseVars,
                      imageLinesVars, customerRunVars, anchorsVars, rowGroupsVars,
                      detectVars, pageVars, repeatVars>>

IdleNotExtract ==
    /\ IdleCluster
    /\ IdleRows
    /\ IdleSection
    /\ IdleBounds
    /\ IdleParse
    /\ IdleImageLines
    /\ IdleCustomerRun
    /\ IdleAnchors
    /\ IdleRowGroups
    /\ IdleDetect
    /\ IdlePage
    /\ IdleRepeat

notImageLinesVars == <<clusterVars, rowsVars, sectionVars, boundsVars, parseVars,
                         extractVars, customerRunVars, anchorsVars, rowGroupsVars,
                         detectVars, pageVars, repeatVars>>

IdleNotImageLines ==
    /\ IdleCluster
    /\ IdleRows
    /\ IdleSection
    /\ IdleBounds
    /\ IdleParse
    /\ IdleExtract
    /\ IdleCustomerRun
    /\ IdleAnchors
    /\ IdleRowGroups
    /\ IdleDetect
    /\ IdlePage
    /\ IdleRepeat

notCustomerRunVars == <<clusterVars, rowsVars, sectionVars, boundsVars, parseVars,
                          extractVars, imageLinesVars, anchorsVars, rowGroupsVars,
                          detectVars, pageVars, repeatVars>>

IdleNotCustomerRun ==
    /\ IdleCluster
    /\ IdleRows
    /\ IdleSection
    /\ IdleBounds
    /\ IdleParse
    /\ IdleExtract
    /\ IdleImageLines
    /\ IdleAnchors
    /\ IdleRowGroups
    /\ IdleDetect
    /\ IdlePage
    /\ IdleRepeat

notAnchorsVars == <<clusterVars, rowsVars, sectionVars, boundsVars, parseVars, extractVars,
                      imageLinesVars, customerRunVars, rowGroupsVars, detectVars, pageVars,
                      repeatVars>>

IdleNotAnchors ==
    /\ IdleCluster
    /\ IdleRows
    /\ IdleSection
    /\ IdleBounds
    /\ IdleParse
    /\ IdleExtract
    /\ IdleImageLines
    /\ IdleCustomerRun
    /\ IdleRowGroups
    /\ IdleDetect
    /\ IdlePage
    /\ IdleRepeat

notRowGroupsVars == <<clusterVars, rowsVars, sectionVars, boundsVars, parseVars,
                        extractVars, imageLinesVars, customerRunVars, anchorsVars,
                        detectVars, pageVars, repeatVars>>

IdleNotRowGroups ==
    /\ IdleCluster
    /\ IdleRows
    /\ IdleSection
    /\ IdleBounds
    /\ IdleParse
    /\ IdleExtract
    /\ IdleImageLines
    /\ IdleCustomerRun
    /\ IdleAnchors
    /\ IdleDetect
    /\ IdlePage
    /\ IdleRepeat

notDetectVars == <<clusterVars, rowsVars, sectionVars, boundsVars, parseVars, extractVars,
                     imageLinesVars, customerRunVars, anchorsVars, rowGroupsVars, pageVars,
                     repeatVars>>

IdleNotDetect ==
    /\ IdleCluster
    /\ IdleRows
    /\ IdleSection
    /\ IdleBounds
    /\ IdleParse
    /\ IdleExtract
    /\ IdleImageLines
    /\ IdleCustomerRun
    /\ IdleAnchors
    /\ IdleRowGroups
    /\ IdlePage
    /\ IdleRepeat

notPageVars == <<clusterVars, rowsVars, sectionVars, boundsVars, parseVars, extractVars,
                   imageLinesVars, customerRunVars, anchorsVars, rowGroupsVars, detectVars,
                   repeatVars>>

IdleNotPage ==
    /\ IdleCluster
    /\ IdleRows
    /\ IdleSection
    /\ IdleBounds
    /\ IdleParse
    /\ IdleExtract
    /\ IdleImageLines
    /\ IdleCustomerRun
    /\ IdleAnchors
    /\ IdleRowGroups
    /\ IdleDetect
    /\ IdleRepeat

notRepeatVars == <<clusterVars, rowsVars, sectionVars, boundsVars, parseVars, extractVars,
                     imageLinesVars, customerRunVars, anchorsVars, rowGroupsVars,
                     detectVars, pageVars>>

IdleNotRepeat ==
    /\ IdleCluster
    /\ IdleRows
    /\ IdleSection
    /\ IdleBounds
    /\ IdleParse
    /\ IdleExtract
    /\ IdleImageLines
    /\ IdleCustomerRun
    /\ IdleAnchors
    /\ IdleRowGroups
    /\ IdleDetect
    /\ IdlePage

\* ---- end of frames ----

(***************************************************************************)
(* Generic helpers                                                         *)
(***************************************************************************)
Abs(x) == IF x < 0 THEN -x ELSE x

Min2(a, b) == IF a <= b THEN a ELSE b

Max2(a, b) == IF a >= b THEN a ELSE b

Range(s) == {s[i] : i \in DOMAIN s}

\* the sequence s with the elements at positions i and i+1 exchanged
SwapAdjacent(s, i) ==
    [k \in DOMAIN s |-> IF k = i THEN s[i + 1] ELSE IF k = i + 1 THEN s[i] ELSE s[k]]

(***************************************************************************)
(* Row clustering                                                          *)
(***************************************************************************)
MaxWords == 3
MaxCy == 3
Thresholds == {1, 2}

\* WordBox: only the identity of the word and its cy matter to cluster_by_y
WordBox == [id : 1..MaxWords, cy : 0..MaxCy]

\* sorted(words, key=lambda w: w.cy): Python's sort is stable, so words of
\* equal cy keep the order of the input list.  Insertion of w after every
\* element whose key is <= key(w).
RECURSIVE InsertByCy(_, _)
InsertByCy(sorted, w) ==
    IF sorted = <<>> THEN <<w>>
    ELSE IF Head(sorted).cy <= w.cy
         THEN <<Head(sorted)>> \o InsertByCy(Tail(sorted), w)
         ELSE <<w>> \o sorted

RECURSIVE SortedByCyFrom(_, _)
SortedByCyFrom(ws, acc) ==
    IF ws = <<>> THEN acc
    ELSE SortedByCyFrom(Tail(ws), InsertByCy(acc, Head(ws)))

NoSortByCy(ws) == ws

SortedByCy(ws) == SortedByCyFrom(ws, <<>>)

WithinThresholdStrictly(cy, row_y, thr) ==
    Abs(cy * row_y[2] - row_y[1]) < thr * row_y[2]

\* row_y is the fraction num/den.  |cy - row_y| <= threshold
WithinThreshold(cy, row_y, thr) ==
    Abs(cy * row_y[2] - row_y[1]) <= thr * row_y[2]

RunningMeanDropsWeight(row_y, n, cy) ==
    <<row_y[1] * n + cy * row_y[2], row_y[2] * n>>

\* last.row_y = ((last.row_y * (n - 1)) + word.cy) / n
RunningMean(row_y, n, cy) ==
    <<row_y[1] * (n - 1) + cy * row_y[2], row_y[2] * n>>

\* RowCluster(row_y=w.cy, words=[w])
NewCluster(w) == [row_y |-> <<w.cy, 1>>, words |-> <<w>>]

\* one iteration of the loop over sorted_words[1:]
ClusterStep(cs, w, thr) ==
    LET last == cs[Len(cs)]
    IN  IF WithinThreshold(w.cy, last.row_y, thr)
        THEN LET n == Len(last.words) + 1
             IN  [cs EXCEPT ![Len(cs)] =
                     [row_y |-> RunningMean(last.row_y, n, w.cy),
                      words |-> Append(last.words, w)]]
        ELSE Append(cs, NewCluster(w))

RECURSIVE ClusterLoop(_, _, _)
ClusterLoop(cs, rest, thr) ==
    IF rest = <<>> THEN cs
    ELSE ClusterLoop(ClusterStep(cs, Head(rest), thr), Tail(rest), thr)

cluster_by_y(ws, thr) ==
    IF ws = <<>> THEN <<>>
    ELSE LET sorted_words == SortedByCy(ws)
         IN  ClusterLoop(<<NewCluster(Head(sorted_words))>>, Tail(sorted_words), thr)

\* the word lists a caller can pass: n distinct words, any cy each
WordLists ==
    UNION {{ws \in [1..n -> WordBox] : \A i \in 1..n : ws[i].id = i} : n \in 0..MaxWords}

InitCluster ==
    /\ words \in WordLists
    /\ threshold \in Thresholds
    /\ clusters = <<>>
    /\ clustered = FALSE
    /\ IdleNotCluster

\* the caller passes the same words in another order
ReorderWords ==
    /\ \E i \in 1..(Len(words) - 1) : words' = SwapAdjacent(words, i)
    /\ UNCHANGED <<threshold, clusters, clustered, notClusterVars>>

CallClusterByY ==
    /\ clusters' = cluster_by_y(words, threshold)
    /\ clustered' = TRUE
    /\ UNCHANGED <<words, threshold, notClusterVars>>

NextCluster == ReorderWords \/ CallClusterByY

SpecCluster == InitCluster /\ [][NextCluster]_vars

\* ---- properties of row clustering ----
MemberCys(c) == {c.words[i].cy : i \in DOMAIN c.words}

\* which words are together: the set of member-id sets
Partition(cs) == {{c.words[i].id : i \in DOMAIN c.words} : c \in Range(cs)}

\* C7: every cluster's row_y lies between the smallest and the largest cy of
\* its member words.
C7_RowYWithinMemberRange ==
    clustered =>
        \A k \in DOMAIN clusters :
            LET c == clusters[k]
            IN  /\ \A m \in MemberCys(c) : (\A o \in MemberCys(c) : m <= o)
                        => m * c.row_y[2] <= c.row_y[1]
                /\ \A m \in MemberCys(c) : (\A o \in MemberCys(c) : m >= o)
                        => c.row_y[1] <= m * c.row_y[2]

\* a cluster of three words with different cy whose row_y is strictly inside
C7_Witness ==
    /\ clustered
    /\ \E k \in DOMAIN clusters :
           /\ Len(clusters[k].words) >= 3
           /\ Cardinality(MemberCys(clusters[k])) >= 2

\* C8: for a fixed word set and threshold, a call on a reordered list puts
\* the same words together as the previous call did.
C8_OrderIndependent ==
    [][(clustered /\ clustered') => Partition(clusters') = Partition(clusters)]_vars

\* a reordered list with two words of equal cy has been clustered
C8_Witness ==
    /\ clustered
    /\ Len(words) >= 3
    /\ words[1].id > words[2].id
    /\ \E i, j \in DOMAIN words : i # j /\ words[i].cy = words[j].cy
    /\ Len(clusters) >= 2

RECURSIVE SumCy(_, _)
SumCy(ws, n) == IF n = 0 THEN 0 ELSE ws[n].cy + SumCy(ws, n - 1)

\* |cy - mean of the cy of the first n words of ws| <= thr
NearMeanOfFirst(cy, ws, n, thr) == Abs(cy * n - SumCy(ws, n)) <= thr * n

\* C25 (as stated): each cluster consists of exactly the input words whose
\* cy is within threshold of the cluster's final row_y.
C25_ClusterIsTheWordsWithinThreshold ==
    clustered =>
        \A k \in DOMAIN clusters : \A i \in DOMAIN words :
            (\E j \in DOMAIN clusters[k].words : clusters[k].words[j] = words[i])
                <=> WithinThreshold(words[i].cy, clusters[k].row_y, threshold)

\* C25 (amended): the clusters partition the input words; every word but the
\* first of a cluster is within threshold of the mean cy of the members
\* before it, the mean taken when the word was added, and the first word of
\* every cluster but the first is farther than threshold from the final
\* row_y of the cluster before it.
C25_WordsJoinWithinThresholdOfRunningMean ==
    clustered =>
        /\ \A i \in DOMAIN words :
            Cardinality({k \in DOMAIN clusters :
                \E j \in DOMAIN clusters[k].words : clusters[k].words[j] = words[i]}) = 1
        /\ \A k \in DOMAIN clusters :
            LET ws == clusters[k].words
            IN  /\ \A j \in 2..Len(ws) : NearMeanOfFirst(ws[j].cy, ws, j - 1, threshold)
                /\ k > 1 =>
                    ~NearMeanOfFirst(ws[1].cy, clusters[k - 1].words,
                                     Len(clusters[k - 1].words), threshold)

\* a member of a cluster of two words lies within threshold of the row_y of
\* the next cluster, of which it is not a member
C25_Witness ==
    /\ clustered
    /\ \E k \in DOMAIN clusters :
        /\ k + 1 \in DOMAIN clusters
        /\ Len(clusters[k].words) >= 2
        /\ \E j \in DOMAIN clusters[k].words :
            WithinThreshold(clusters[k].words[j].cy, clusters[k + 1].row_y, threshold)

(***************************************************************************)
(* Output row assembly (e055 build_output_rows)                            *)
(***************************************************************************)
MaxCands == 2

\* A text is a sequence of characters; only the characters that the output
\* code looks at are distinguished: ":" separates maker from model, " " is
\* stripped at the ends, "L" stands for a model that
\* _is_emergency_certification_model recognises (LALE + digit).
TextMakerModel == <<"K", ":", " ", "M">>
TextModelOnly == <<"N">>
TextEmergency == <<"L">>
TextEmpty == <<>>

RECURSIVE StripLeft(_)
StripLeft(t) ==
    IF t # <<>> /\ Head(t) = " " THEN StripLeft(Tail(t)) ELSE t

RECURSIVE StripRight(_)
StripRight(t) ==
    IF t # <<>> /\ t[Len(t)] = " " THEN StripRight(SubSeq(t, 1, Len(t) - 1)) ELSE t

\* str.strip()
Strip(t) == StripLeft(StripRight(t))

\* position of the first ":" in t, 0 when there is none
RECURSIVE FirstColon(_, _)
FirstColon(t, i) ==
    IF i > Len(t) THEN 0
    ELSE IF t[i] = ":" THEN i
    ELSE FirstColon(t, i + 1)

\* split_equivalent_model: text.split(":", 1), both parts stripped
split_equivalent_model(value) ==
    LET text == Strip(value)
        k == FirstColon(text, 1)
    IN  IF k > 0
        THEN <<Strip(SubSeq(text, 1, k - 1)), Strip(SubSeq(text, k + 1, Len(text)))>>
        ELSE <<<<>>, text>>

EXCLUDED_EMERGENCY_CODES == {"EDL", "EDM", "ECL", "ECM", "ECH", "ES1", "ES2"}

_is_emergency_certification_model(model) ==
    model # <<>> /\ Head(model) = "L"

_should_skip_output_row(equipment, model) ==
    \/ model = <<>>
    \/ equipment \in EXCLUDED_EMERGENCY_CODES
    \/ _is_emergency_certification_model(model)

\* the sort key of build_output_rows, compared as Python compares tuples
OutputSortKey(item) ==
    <<item.page, item.section_index, item.block_index, item.row_y, item.row_x>>

RECURSIVE TupleLess(_, _)
TupleLess(a, b) ==
    IF a = <<>> \/ b = <<>> THEN a = <<>> /\ b # <<>>
    ELSE IF Head(a) # Head(b) THEN Head(a) < Head(b)
    ELSE TupleLess(Tail(a), Tail(b))

\* stable insertion: item goes after every element whose key is not greater
RECURSIVE InsertByOutputKey(_, _)
InsertByOutputKey(sorted, item) ==
    IF sorted = <<>> THEN <<item>>
    ELSE IF TupleLess(OutputSortKey(item), OutputSortKey(Head(sorted)))
         THEN <<item>> \o sorted
         ELSE <<Head(sorted)>> \o InsertByOutputKey(Tail(sorted), item)

RECURSIVE SortedByOutputKeyFrom(_, _)
SortedByOutputKeyFrom(items, acc) ==
    IF items = <<>> THEN acc
    ELSE SortedByOutputKeyFrom(Tail(items), InsertByOutputKey(acc, Head(items)))

SortedByOutputKey(items) == SortedByOutputKeyFrom(items, <<>>)

RECURSIVE OutputRowsOf(_)
OutputRowsOf(sorted_candidates) ==
    IF sorted_candidates = <<>> THEN <<>>
    ELSE LET item == Head(sorted_candidates)
             mm == split_equivalent_model(Strip(item.equivalent_model))
             equipment == item.equipment
         IN  IF _should_skip_output_row(equipment, mm[2])
             THEN OutputRowsOf(Tail(sorted_candidates))
             ELSE <<[equipment |-> equipment, manufacturer |-> mm[1], model |-> mm[2]]>>
                      \o OutputRowsOf(Tail(sorted_candidates))

\* rows with every repetition of an earlier row dropped
RECURSIVE WithoutRepeatedRows(_)
WithoutRepeatedRows(rows) ==
    IF rows = <<>> THEN <<>>
    ELSE LET front == WithoutRepeatedRows(SubSeq(rows, 1, Len(rows) - 1))
             last == rows[Len(rows)]
         IN  IF \E k \in DOMAIN front : front[k] = last THEN front ELSE Append(front, last)

BuildOutputRowsDeduplicated(cands) == WithoutRepeatedRows(OutputRowsOf(SortedByOutputKey(cands)))

build_output_rows(cands) == OutputRowsOf(SortedByOutputKey(cands))

\* candidate records: a few positions, a few payloads
CandidateKeys ==
    {[page |-> 1, section_index |-> 0, block_index |-> 0, row_y |-> 30, row_x |-> 10],
     [page |-> 1, section_index |-> 0, block_index |-> 1, row_y |-> 20, row_x |-> 90],
     [page |-> 2, section_index |-> 0, block_index |-> 0, row_y |-> 10, row_x |-> 10]}

CandidatePayloads ==
    {[equipment |-> "CT1", equivalent_model |-> TextMakerModel],
     [equipment |-> "CT2", equivalent_model |-> TextModelOnly],
     [equipment |-> "EDL", equivalent_model |-> TextMakerModel],
     [equipment |-> "CT1", equivalent_model |-> TextEmergency],
     [equipment |-> "", equivalent_model |-> TextEmpty]}

Candidate ==
    {[page |-> k.page, section_index |-> k.section_index, block_index |-> k.block_index,
      row_y |-> k.row_y, row_x |-> k.row_x,
      equipment |-> p.equipment, equivalent_model |-> p.equivalent_model] :
        k \in CandidateKeys, p \in CandidatePayloads}

CandidateLists == UNION {[1..n -> Candidate] : n \in 0..MaxCands}

InitRows ==
    /\ candidates \in CandidateLists
    /\ outputRows = <<>>
    /\ built = FALSE
    /\ IdleNotRows

\* the caller passes the same candidates in another order
ReorderCandidates ==
    /\ \E i \in 1..(Len(candidates) - 1) : candidates' = SwapAdjacent(candidates, i)
    /\ UNCHANGED <<outputRows, built, notRowsVars>>

CallBuildOutputRows ==
    /\ outputRows' = build_output_rows(candidates)
    /\ built' = TRUE
    /\ UNCHANGED <<candidates, notRowsVars>>

NextRows == ReorderCandidates \/ CallBuildOutputRows

SpecRows == InitRows /\ [][NextRows]_vars

\* C4: build_output_rows returns the same output for every ordering of the
\* same candidates: a call on the reordered list returns what the previous
\* call returned.
C4_OutputIndependentOfInputOrder ==
    [][(built /\ built') => outputRows' = outputRows]_vars

\* the output row a candidate stands for, and whether the filter keeps it
OutputRowFor(item) ==
    LET mm == split_equivalent_model(Strip(item.equivalent_model))
    IN  [equipment |-> item.equipment, manufacturer |-> mm[1], model |-> mm[2]]

KeptByFilter(item) ==
    ~_should_skip_output_row(item.equipment, split_equivalent_model(Strip(item.equivalent_model))[2])

\* C15: build_output_rows emits exactly one output row per candidate the
\* filter keeps: every output row occurs as often as there are kept
\* candidates standing for it, so k identical kept candidates give k rows.
C15_OneOutputRowPerKeptCandidate ==
    built =>
        /\ Len(outputRows) = Cardinality({i \in DOMAIN candidates : KeptByFilter(candidates[i])})
        /\ \A i \in DOMAIN candidates :
               KeptByFilter(candidates[i]) =>
                   Cardinality({k \in DOMAIN outputRows : outputRows[k] = OutputRowFor(candidates[i])})
                       = Cardinality({j \in DOMAIN candidates :
                                         /\ KeptByFilter(candidates[j])
                                         /\ OutputRowFor(candidates[j]) = OutputRowFor(candidates[i])})

\* two identical kept candidates gave two identical output rows
C15_Witness ==
    /\ built
    /\ Len(candidates) = 2
    /\ candidates[1] = candidates[2]
    /\ KeptByFilter(candidates[1])
    /\ Len(outputRows) = 2
    /\ outputRows[1] = outputRows[2]

(***************************************************************************)
(* Exact fractions <<n, d>> with d > 0                                     *)
(***************************************************************************)
Q(n) == <<n, 1>>

RECURSIVE Gcd(_, _)
Gcd(a, b) == IF b = 0 THEN a ELSE Gcd(b, a % b)

\* the fraction n/d in lowest terms
QNorm(n, d) ==
    LET g == Gcd(Abs(n), d)
    IN  <<n \div g, d \div g>>

QAdd(a, b) == QNorm(a[1] * b[2] + b[1] * a[2], a[2] * b[2])

QSub(a, b) == QNorm(a[1] * b[2] - b[1] * a[2], a[2] * b[2])

QMul(a, b) == QNorm(a[1] * b[1], a[2] * b[2])

QDivN(a, n) == QNorm(a[1], a[2] * n)

QAbs(a) == <<Abs(a[1]), a[2]>>

QLess(a, b) == a[1] * b[2] < b[1] * a[2]

QLeq(a, b) == a[1] * b[2] <= b[1] * a[2]

QMin(a, b) == IF QLeq(a, b) THEN a ELSE b

QMax(a, b) == IF QLeq(b, a) THEN a ELSE b

RECURSIVE QSum(_)
QSum(qs) == IF qs = <<>> THEN Q(0) ELSE QAdd(Head(qs), QSum(Tail(qs)))

\* sorted(values) for a list of fractions
RECURSIVE QInsert(_, _)
QInsert(sorted, v) ==
    IF sorted = <<>> THEN <<v>>
    ELSE IF QLeq(Head(sorted), v)
         THEN <<Head(sorted)>> \o QInsert(Tail(sorted), v)
         ELSE <<v>> \o sorted

RECURSIVE QSortedFrom(_, _)
QSortedFrom(vs, acc) ==
    IF vs = <<>> THEN acc ELSE QSortedFrom(Tail(vs), QInsert(acc, Head(vs)))

QSorted(vs) == QSortedFrom(vs, <<>>)

\* the members of the index set S in the order of sorted(..., key=key):
\* ascending key, list order among equal keys (the sort is stable)
RECURSIVE SortIdx(_, _)
SortIdx(S, key) ==
    IF S = {} THEN <<>>
    ELSE LET m == CHOOSE i \in S :
                      \A j \in S \ {i} : TupleLess(key[i] \o <<i>>, key[j] \o <<j>>)
         IN  <<m>> \o SortIdx(S \ {m}, key)

\* the elements of the sequence s that satisfy the index predicate keep
SelectIdx(s, keep) ==
    LET RECURSIVE Sel(_)
        Sel(i) == IF i > Len(s) THEN <<>>
                  ELSE IF i \in keep THEN <<s[i]>> \o Sel(i + 1) ELSE Sel(i + 1)
    IN  Sel(1)

(***************************************************************************)
(* e055: block assignment of a section                                     *)
(***************************************************************************)
BLOCK_CLUSTER_TOLERANCE == 220
E251_BLOCK_CLUSTER_TOLERANCE == 260

\* _cluster_x_positions: a value joins the last cluster when it is within
\* tolerance of that cluster's last (largest) value; the result is the list
\* of cluster means.  groups is the list of clusters built so far.
RECURSIVE ClusterXLoop(_, _, _)
ClusterXLoop(groups, rest, tolerance) ==
    IF rest = <<>> THEN groups
    ELSE LET value == Head(rest)
             lastGroup == groups[Len(groups)]
             lastValue == lastGroup[Len(lastGroup)]
         IN  IF QLeq(QAbs(QSub(value, lastValue)), Q(tolerance))
             THEN ClusterXLoop([groups EXCEPT ![Len(groups)] = Append(lastGroup, value)],
                               Tail(rest), tolerance)
             ELSE ClusterXLoop(Append(groups, <<value>>), Tail(rest), tolerance)

_cluster_x_positions(values, tolerance) ==
    IF values = <<>> THEN <<>>
    ELSE LET sorted_values == QSorted(values)
             groups == ClusterXLoop(<<<<Head(sorted_values)>>>>, Tail(sorted_values), tolerance)
         IN  [g \in DOMAIN groups |-> QDivN(QSum(groups[g]), Len(groups[g]))]

NearestCenterIndexOneBased(x, centers) ==
    CHOOSE i \in DOMAIN centers :
        /\ \A j \in DOMAIN centers :
               QLeq(QAbs(QSub(Q(x), centers[i])), QAbs(QSub(Q(x), centers[j])))
        /\ \A j \in 1..(i - 1) :
               QLess(QAbs(QSub(Q(x), centers[i])), QAbs(QSub(Q(x), centers[j])))

\* min(range(len(centers)), key=lambda idx: abs(x - centers[idx])): the
\* first index (from 0) of a nearest center
NearestCenterIndex(x, centers) ==
    (CHOOSE i \in DOMAIN centers :
        /\ \A j \in DOMAIN centers :
               QLeq(QAbs(QSub(Q(x), centers[i])), QAbs(QSub(Q(x), centers[j])))
        /\ \A j \in 1..(i - 1) :
               QLess(QAbs(QSub(Q(x), centers[i])), QAbs(QSub(Q(x), centers[j])))) - 1

_assign_block_indexes_with_centers(rows, centers) ==
    [i \in DOMAIN rows |->
        IF centers = <<>>
        THEN [rows[i] EXCEPT !.block_index = 0]
        ELSE [rows[i] EXCEPT !.block_index = NearestCenterIndex(rows[i].row_x, centers)]]

\* the x_values of _extract_page_candidate_rows: row_x of the rows that carry
\* a symbol, or of all rows when none does
SectionXValues(rows) ==
    LET withSymbol == {i \in DOMAIN rows : rows[i].equipment # ""}
        chosen == IF withSymbol = {} THEN DOMAIN rows ELSE withSymbol
    IN  SelectIdx([i \in DOMAIN rows |-> Q(rows[i].row_x)], chosen)

\* e251 _assign_block_indexes: the centers come from every row's row_x
e251_assign_block_indexes(rows) ==
    IF rows = <<>> THEN rows
    ELSE LET x_values == [i \in DOMAIN rows |-> Q(rows[i].row_x)]
             centers == _cluster_x_positions(x_values, E251_BLOCK_CLUSTER_TOLERANCE)
         IN  IF centers = <<>>
             THEN [i \in DOMAIN rows |-> [rows[i] EXCEPT !.block_index = 0]]
             ELSE [i \in DOMAIN rows |->
                      [rows[i] EXCEPT !.block_index = NearestCenterIndex(rows[i].row_x, centers)]]

(***************************************************************************)
(* e055: continuation propagation (_propagate_equipment_in_section)        *)
(***************************************************************************)
MAX_PROPAGATION_DISTANCE == 120

\* sorted(rows_by_y.keys())
SortedYs(rows) ==
    LET ys == {rows[i].row_y : i \in DOMAIN rows}
    IN  SortIdx(ys, [y \in ys |-> <<>>])

\* rows_by_y[y] sorted by row_x
RowGroup(rows, y) ==
    SortIdx({i \in DOMAIN rows : rows[i].row_y = y}, [i \in DOMAIN rows |-> <<rows[i].row_x>>])

\* the rows of RowGroup(rows, y) that carry a symbol
SourceRowsAt(rows, y) ==
    SortIdx({i \in DOMAIN rows : rows[i].row_y = y /\ rows[i].equipment # ""},
            [i \in DOMAIN rows |-> <<rows[i].row_x>>])

\* row takes symbol, block_index and model_x of source
TakeFromSource(row, source) ==
    [row EXCEPT !.equipment = source.equipment,
                !.block_index = source.block_index,
                !.model_x = source.model_x]

\* same count: current_rows[k] takes from source_rows[k]
MapPositionally(rows, current_rows, source_rows) ==
    [i \in DOMAIN rows |->
        IF \E k \in DOMAIN current_rows : current_rows[k] = i
        THEN LET k == CHOOSE k \in DOMAIN current_rows : current_rows[k] = i
             IN  TakeFromSource(rows[i], rows[source_rows[k]])
        ELSE rows[i]]

\* min(source_pool, key=|model_x(source) - row_model_x|): first minimal
NearestSourcePos(rows, source_pool, row_model_x) ==
    CHOOSE p \in DOMAIN source_pool :
        /\ \A q \in DOMAIN source_pool :
               Abs(rows[source_pool[p]].model_x - row_model_x)
                   <= Abs(rows[source_pool[q]].model_x - row_model_x)
        /\ \A q \in 1..(p - 1) :
               Abs(rows[source_pool[p]].model_x - row_model_x)
                   < Abs(rows[source_pool[q]].model_x - row_model_x)

RemoveNothing(s, v) == s

\* the sequence s without its first occurrence of v
RemoveFirst(s, v) ==
    IF \E p \in DOMAIN s : s[p] = v
    THEN LET p == CHOOSE p \in DOMAIN s : s[p] = v /\ \A q \in 1..(p - 1) : s[q] # v
         IN  SubSeq(s, 1, p - 1) \o SubSeq(s, p + 1, Len(s))
    ELSE s

\* different count: each current row takes the nearest still-available source
RECURSIVE MapByNearestModelX(_, _, _, _, _)
MapByNearestModelX(rows, current_rows, source_rows, available_sources, k) ==
    IF k > Len(current_rows) THEN rows
    ELSE LET i == current_rows[k]
             source_pool == IF available_sources # <<>> THEN available_sources ELSE source_rows
             source == source_pool[NearestSourcePos(rows, source_pool, rows[i].model_x)]
         IN  MapByNearestModelX([rows EXCEPT ![i] = TakeFromSource(rows[i], rows[source])],
                                current_rows, source_rows,
                                RemoveFirst(available_sources, source), k + 1)

\* the row-group pass without its distance limit
WithinPropagationDistanceIgnored(y, source_y) == TRUE

\* not (abs(y - source_y) > 120.0)
WithinPropagationDistance(y, source_y) == Abs(y - source_y) <= MAX_PROPAGATION_DISTANCE

\* one iteration of the loop over sorted_ys
RowGroupStep(rows, sorted_ys, idx) ==
    LET y == sorted_ys[idx]
        current_rows == RowGroup(rows, y)
        withSource == {j \in 1..(idx - 1) : SourceRowsAt(rows, sorted_ys[j]) # <<>>}
    IN  IF \E k \in DOMAIN current_rows : rows[current_rows[k]].equipment # ""
        THEN rows
        ELSE IF withSource = {} THEN rows
        ELSE LET j == CHOOSE j \in withSource : \A o \in withSource : o <= j
                 source_y == sorted_ys[j]
                 source_rows == SourceRowsAt(rows, source_y)
             IN  IF ~WithinPropagationDistance(y, source_y) THEN rows
                 ELSE IF Len(current_rows) = Len(source_rows)
                      THEN MapPositionally(rows, current_rows, source_rows)
                      ELSE MapByNearestModelX(rows, current_rows, source_rows, source_rows, 1)

RECURSIVE RowGroupPass(_, _, _)
RowGroupPass(rows, sorted_ys, idx) ==
    IF idx > Len(sorted_ys) THEN rows
    ELSE RowGroupPass(RowGroupStep(rows, sorted_ys, idx), sorted_ys, idx + 1)

\* forward fill inside one block, order being the block's rows by (row_y, row_x)
RECURSIVE ForwardFill(_, _, _, _)
ForwardFill(rows, order, k, last_equipment) ==
    IF k > Len(order) THEN rows
    ELSE LET i == order[k]
         IN  IF rows[i].equipment # ""
             THEN ForwardFill(rows, order, k + 1, rows[i].equipment)
             ELSE IF last_equipment # ""
                  THEN ForwardFill([rows EXCEPT ![i].equipment = last_equipment],
                                   order, k + 1, last_equipment)
                  ELSE ForwardFill(rows, order, k + 1, last_equipment)

RECURSIVE BlockPass(_, _)
BlockPass(rows, blocks) ==
    IF blocks = {} THEN rows
    ELSE LET b == CHOOSE b \in blocks : TRUE
             order == SortIdx({i \in DOMAIN rows : rows[i].block_index = b},
                              [i \in DOMAIN rows |-> <<rows[i].row_y, rows[i].row_x>>])
         IN  BlockPass(ForwardFill(rows, order, 1, ""), blocks \ {b})

_propagate_equipment_in_section(rows) ==
    LET afterRowGroups == RowGroupPass(rows, SortedYs(rows), 1)
    IN  BlockPass(afterRowGroups, {afterRowGroups[i].block_index : i \in DOMAIN afterRowGroups})

(***************************************************************************)
(* e055: line-assist gate                                                  *)
(***************************************************************************)
LINE_MERGE_TOLERANCE == 18
LINE_BLOCK_MIN_GAP == 18
LINE_BLOCK_MIN_WIDTH == 70
LINE_BLOCK_COVERAGE_MARGIN == 8
LINE_STRENGTH_FULL_COUNT == 8
LINE_BLOCK_MAX_COUNT == 8
BASELINE_BLOCK_COUNT_SLACK == 2
ALIGNMENT_GAIN_MARGIN == 1

\* _merge_vertical_lines: the x positions of both sources, sorted and merged
\* within 18px into cluster means
_merge_vertical_lines(vector_lines, image_lines) ==
    LET merged == QSorted(vector_lines \o image_lines)
    IN  IF merged = <<>> THEN <<>>
        ELSE LET groups == ClusterXLoop(<<<<Head(merged)>>>>, Tail(merged), LINE_MERGE_TOLERANCE)
             IN  [g \in DOMAIN groups |-> QDivN(QSum(groups[g]), Len(groups[g]))]

\* compact_bounds: a bound is kept when it is more than 18px from the last kept
RECURSIVE CompactBounds(_, _)
CompactBounds(bounds, compact_bounds) ==
    IF bounds = <<>> THEN compact_bounds
    ELSE LET value == Head(bounds)
         IN  IF compact_bounds = <<>>
                \/ QLess(Q(LINE_BLOCK_MIN_GAP),
                         QAbs(QSub(value, compact_bounds[Len(compact_bounds)])))
             THEN CompactBounds(Tail(bounds), Append(compact_bounds, value))
             ELSE CompactBounds(Tail(bounds), compact_bounds)

\* zip(compact_bounds, compact_bounds[1:]) without the pairs narrower than 70px
RECURSIVE BlocksBetween(_, _)
BlocksBetween(compact_bounds, k) ==
    IF k >= Len(compact_bounds) THEN <<>>
    ELSE LET left == compact_bounds[k]
             right == compact_bounds[k + 1]
         IN  IF QLess(QSub(right, left), Q(LINE_BLOCK_MIN_WIDTH))
             THEN BlocksBetween(compact_bounds, k + 1)
             ELSE <<<<left, right>>>> \o BlocksBetween(compact_bounds, k + 1)

_build_line_based_blocks(vertical_xs, x_min, x_max) ==
    LET inside == SelectIdx(vertical_xs,
                            {k \in DOMAIN vertical_xs :
                                 QLeq(Q(x_min), vertical_xs[k]) /\ QLeq(vertical_xs[k], Q(x_max))})
        bounds == QSorted(<<Q(x_min)>> \o inside \o <<Q(x_max)>>)
    IN  BlocksBetween(CompactBounds(bounds, <<>>), 1)

\* the confidence as a fraction of 1
_line_assist_confidence(rows, line_blocks, vector_line_count, image_line_count, baseline_center_count) ==
    IF rows = <<>> \/ line_blocks = <<>> THEN Q(0)
    ELSE LET coverage_hits ==
                 Cardinality({i \in DOMAIN rows :
                     \E b \in DOMAIN line_blocks :
                         /\ QLeq(QSub(line_blocks[b][1], Q(LINE_BLOCK_COVERAGE_MARGIN)),
                                 Q(rows[i].row_x))
                         /\ QLeq(Q(rows[i].row_x),
                                 QAdd(line_blocks[b][2], Q(LINE_BLOCK_COVERAGE_MARGIN)))})
             coverage == <<coverage_hits, Max2(Len(rows), 1)>>
             line_strength == QMin(<<vector_line_count + image_line_count,
                                     LINE_STRENGTH_FULL_COUNT>>, Q(1))
             block_count_score ==
                 IF 1 <= Len(line_blocks) /\ Len(line_blocks) <= LINE_BLOCK_MAX_COUNT
                 THEN Q(1) ELSE <<3, 10>>
             baseline_alignment ==
                 IF Abs(Len(line_blocks) - Max2(baseline_center_count, 1))
                        <= BASELINE_BLOCK_COUNT_SLACK
                 THEN Q(1) ELSE <<1, 2>>
             confidence ==
                 QAdd(QAdd(QMul(<<45, 100>>, coverage), QMul(<<25, 100>>, line_strength)),
                      QAdd(QMul(<<20, 100>>, block_count_score),
                           QMul(<<10, 100>>, baseline_alignment)))
         IN  QMax(Q(0), QMin(confidence, Q(1)))

\* rows that have a model but no symbol
_count_unresolved_equipment(rows) ==
    Cardinality({i \in DOMAIN rows :
                     rows[i].equivalent_model # "" /\ rows[i].equipment = ""})

\* mean over the rows of |model_x - mean model_x of the row's block|
_average_model_block_alignment_distance(rows) ==
    IF rows = <<>> THEN Q(0)
    ELSE LET block_center(b) ==
                 LET members == {i \in DOMAIN rows : rows[i].block_index = b}
                 IN  QDivN(QSum(SelectIdx([i \in DOMAIN rows |-> Q(rows[i].model_x)], members)),
                           Cardinality(members))
             distances == [i \in DOMAIN rows |->
                              QAbs(QSub(Q(rows[i].model_x), block_center(rows[i].block_index)))]
         IN  QDivN(QSum(distances), Len(rows))

\* the info dict at the start of _apply_line_assist_if_confident, with the
\* locals of the quality comparison (measured tells whether they were computed)
InitialAssistInfo ==
    [invoked |-> FALSE, adopted |-> FALSE, confidence |-> Q(0), rejected_reason |-> "",
     vector_line_count |-> 0, image_line_count |-> 0, line_block_count |-> 0,
     measured |-> FALSE,
     baseline_unresolved |-> 0, assisted_unresolved |-> 0,
     baseline_alignment |-> Q(0), assisted_alignment |-> Q(0),
     baseline_symbols |-> <<>>, assisted_symbols |-> <<>>]

\* the symbols of the records, in list order
Symbols(rows) == [i \in DOMAIN rows |-> rows[i].equipment]

CommitNothing(rows, assisted_rows) == rows

QualityGainEitherOrEqual(assisted_unresolved, baseline_unresolved, assisted_alignment, baseline_alignment) ==
    \/ assisted_unresolved <= baseline_unresolved
    \/ QLess(QAdd(assisted_alignment, Q(ALIGNMENT_GAIN_MARGIN)), baseline_alignment)

\* unresolved_improved or alignment_improved
QualityGain(assisted_unresolved, baseline_unresolved, assisted_alignment, baseline_alignment) ==
    \/ assisted_unresolved < baseline_unresolved
    \/ QLess(QAdd(assisted_alignment, Q(ALIGNMENT_GAIN_MARGIN)), baseline_alignment)

CommitAssistedRows(rows, assisted_rows) == assisted_rows

\* the commit loop: row["block_index"] = assisted_rows[index]["block_index"]
CommitBlockIndexes(rows, assisted_rows) ==
    [i \in DOMAIN rows |-> [rows[i] EXCEPT !.block_index = assisted_rows[i].block_index]]

\* _apply_line_assist_if_confident: returns the info and the section rows as
\* the call leaves them.  vector_lines and image_lines are what the two line
\* collectors returned.
_apply_line_assist_if_confident(rows, x_min, x_max, baseline_x_centers, vector_lines, image_lines, min_confidence) ==
    IF rows = <<>>
    THEN [info |-> [InitialAssistInfo EXCEPT !.rejected_reason = "no_section_candidates"],
          rows |-> rows]
    ELSE
    LET merged_lines == _merge_vertical_lines(vector_lines, image_lines)
        line_blocks == _build_line_based_blocks(merged_lines, x_min, x_max)
        confidence == _line_assist_confidence(rows, line_blocks, Len(vector_lines),
                                              Len(image_lines), Len(baseline_x_centers))
        info1 == [InitialAssistInfo EXCEPT !.invoked = TRUE,
                                           !.vector_line_count = Len(vector_lines),
                                           !.image_line_count = Len(image_lines),
                                           !.line_block_count = Len(line_blocks),
                                           !.confidence = confidence]
    IN  IF QLess(confidence, min_confidence)
        THEN [info |-> [info1 EXCEPT !.rejected_reason = "confidence_below_threshold"],
              rows |-> rows]
        ELSE IF line_blocks = <<>>
        THEN [info |-> [info1 EXCEPT !.rejected_reason = "no_line_blocks"], rows |-> rows]
        ELSE
        LET block_centers == [b \in DOMAIN line_blocks |->
                                 QDivN(QAdd(line_blocks[b][1], line_blocks[b][2]), 2)]
            baseline_rows == _propagate_equipment_in_section(rows)
            assisted_rows == _propagate_equipment_in_section(
                                 _assign_block_indexes_with_centers(rows, block_centers))
            info2 == [info1 EXCEPT
                         !.measured = TRUE,
                         !.baseline_unresolved = _count_unresolved_equipment(baseline_rows),
                         !.baseline_alignment =
                             _average_model_block_alignment_distance(baseline_rows),
                         !.assisted_unresolved = _count_unresolved_equipment(assisted_rows),
                         !.assisted_alignment =
                             _average_model_block_alignment_distance(assisted_rows),
                         !.baseline_symbols = Symbols(baseline_rows),
                         !.assisted_symbols = Symbols(assisted_rows)]
        IN  IF ~QualityGain(info2.assisted_unresolved, info2.baseline_unresolved,
                            info2.assisted_alignment, info2.baseline_alignment)
            THEN [info |-> [info2 EXCEPT !.rejected_reason = "no_quality_gain"],
                  rows |-> rows]
            ELSE [info |-> [info2 EXCEPT !.adopted = TRUE],
                  rows |-> CommitBlockIndexes(rows, assisted_rows)]

(***************************************************************************)
(* e055: one section of _extract_page_candidate_rows                       *)
(***************************************************************************)
MaxRows == 3
WordWidth == 40
PageWidth == 1600
SECTION_BOUNDS_X_MARGIN == 20
VECTOR_LINE_ROI_MARGIN == 40
IMAGE_LINE_ROI_MARGIN == 32
CONTINUATION_MIN_ROWS == 2
DENSE_CENTER_GAP == 130
CROSS_MODEL_DISTANCE == 420
CROSS_MODEL_MIN_ROWS == 2
SPARSE_MAX_ROWS == 2
WIDE_SECTION_WIDTH == 900
LINE_ASSIST_DEFAULT_MIN_CONFIDENCE == <<70, 100>>
LINE_ASSIST_MODE_ALLOWED == {"auto", "off", "force"}

\* block_index before the assignment: the key is not in the dict yet
NoBlockIndex == -1

\* The candidate records a section can hold, in the order in which the
\* section loop appends them (clusters by row_y, tokens by x).
SectionRowUniverse ==
    <<[row_y |-> 100, row_x |-> 100,  model_x |-> 100,  equipment |-> "A"],
      [row_y |-> 100, row_x |-> 300,  model_x |-> 300,  equipment |-> "C"],
      [row_y |-> 100, row_x |-> 700,  model_x |-> 700,  equipment |-> ""],
      [row_y |-> 100, row_x |-> 1000, model_x |-> 1000, equipment |-> "B"],
      [row_y |-> 200, row_x |-> 100,  model_x |-> 100,  equipment |-> ""],
      [row_y |-> 200, row_x |-> 100,  model_x |-> 1000, equipment |-> ""],
      [row_y |-> 200, row_x |-> 300,  model_x |-> 300,  equipment |-> ""],
      [row_y |-> 200, row_x |-> 1000, model_x |-> 1000, equipment |-> ""],
      [row_y |-> 400, row_x |-> 100,  model_x |-> 100,  equipment |-> ""],
      [row_y |-> 400, row_x |-> 300,  model_x |-> 300,  equipment |-> ""],
      [row_y |-> 400, row_x |-> 1000, model_x |-> 1000, equipment |-> "B"]>>

SectionRow(u) ==
    [row_y |-> u.row_y, row_x |-> u.row_x, model_x |-> u.model_x,
     block_index |-> NoBlockIndex, equipment |-> u.equipment, equivalent_model |-> "M"]

SectionLists ==
    UNION {{[k \in 1..n |-> SectionRow(SectionRowUniverse[f[k]])] :
               f \in {g \in [1..n -> DOMAIN SectionRowUniverse] :
                          \A k \in 1..(n - 1) : g[k] <= g[k + 1]}} :
           n \in 0..MaxRows}

MinOf(S) == CHOOSE m \in S : \A o \in S : m <= o

MaxOf(S) == CHOOSE m \in S : \A o \in S : m >= o

\* _section_bounds_from_clusters (x range): the section's words are those of
\* its candidates, each WordWidth wide
_section_bounds_from_clusters(rows) ==
    IF rows = <<>> THEN [x_min |-> 0, x_max |-> PageWidth]
    ELSE LET lefts == {rows[i].row_x : i \in DOMAIN rows} \cup {rows[i].model_x : i \in DOMAIN rows}
         IN  [x_min |-> Max2(0, MinOf(lefts) - SECTION_BOUNDS_X_MARGIN),
              x_max |-> Min2(PageWidth, MaxOf(lefts) + WordWidth + SECTION_BOUNDS_X_MARGIN)]

LINE_ASSIST_DEFAULT_LATENCY_BUDGET_MS == 300

LineAssistConfigs ==
    {[mode |-> m, min_confidence |-> LINE_ASSIST_DEFAULT_MIN_CONFIDENCE,
      latency_budget_ms |-> LINE_ASSIST_DEFAULT_LATENCY_BUDGET_MS] :
         m \in LINE_ASSIST_MODE_ALLOWED}
    \cup {[mode |-> "force", min_confidence |-> Q(0),
           latency_budget_ms |-> LINE_ASSIST_DEFAULT_LATENCY_BUDGET_MS]}

\* what the two line collectors can return: vertical lines of the drawing
\* that lie in the collector's region of interest around the section
DrawnVectorLines == {<<>>, <<200>>, <<900>>, <<130, 650>>}

DrawnImageLines == {<<>>, <<210>>}

_collect_vector_vertical_lines(drawn, bounds) ==
    SelectIdx([k \in DOMAIN drawn |-> Q(drawn[k])],
              {k \in DOMAIN drawn :
                   /\ drawn[k] >= bounds.x_min - VECTOR_LINE_ROI_MARGIN
                   /\ drawn[k] <= bounds.x_max + VECTOR_LINE_ROI_MARGIN})

\* the image processing of _collect_image_vertical_lines: the near-vertical
\* Hough lines inside the region of interest
DetectedImageLines(drawn, bounds) ==
    SelectIdx([k \in DOMAIN drawn |-> Q(drawn[k])],
              {k \in DOMAIN drawn :
                   /\ drawn[k] >= Max2(bounds.x_min - IMAGE_LINE_ROI_MARGIN, 0)
                   /\ drawn[k] <= Min2(bounds.x_max + IMAGE_LINE_ROI_MARGIN, PageWidth)})

InvalidRoi(bounds) ==
    Min2(bounds.x_max + IMAGE_LINE_ROI_MARGIN, PageWidth) <= Max2(bounds.x_min - IMAGE_LINE_ROI_MARGIN, 0)

IMAGE_MIN_REMAINING_MS == 1

BudgetExhaustedNever(time_budget_ms, elapsed_ms) == FALSE

\* remaining_ms <= 1.0, with remaining_ms = max(time_budget_ms - elapsed_ms, 0)
BudgetExhausted(time_budget_ms, elapsed_ms) ==
    Max2(time_budget_ms - elapsed_ms, 0) <= IMAGE_MIN_REMAINING_MS

ImageDiagnostics == [error |-> "", elapsed_ms |-> 0, timed_out |-> FALSE, raw_lines |-> 0]

\* _collect_image_vertical_lines.  env is the call's environment: whether cv2
\* and numpy were imported, the milliseconds since start_time at entry and at
\* exit, and whether a cv2 / numpy call raises.  processed tells whether the
\* function got as far as np.array(page_image).
_collect_image_vertical_lines(drawn, bounds, time_budget_ms, env) ==
    IF ~env.cv2_available
    THEN [lines |-> <<>>, processed |-> FALSE, raised |-> FALSE,
          diagnostics |-> [ImageDiagnostics EXCEPT !.error = "opencv_or_numpy_unavailable"]]
    ELSE IF BudgetExhausted(time_budget_ms, env.elapsed_ms_at_entry)
    THEN [lines |-> <<>>, processed |-> FALSE, raised |-> FALSE,
          diagnostics |-> [ImageDiagnostics EXCEPT !.timed_out = TRUE,
                                                   !.elapsed_ms = env.elapsed_ms_at_entry]]
    ELSE IF env.processing_raises
    THEN [lines |-> <<>>, processed |-> TRUE, raised |-> TRUE, diagnostics |-> ImageDiagnostics]
    ELSE IF InvalidRoi(bounds)
    THEN [lines |-> <<>>, processed |-> TRUE, raised |-> FALSE,
          diagnostics |-> [ImageDiagnostics EXCEPT !.error = "invalid_roi",
                                                   !.elapsed_ms = env.elapsed_ms_at_exit]]
    ELSE LET lines == DetectedImageLines(drawn, bounds)
         IN  [lines |-> lines, processed |-> TRUE, raised |-> FALSE,
              diagnostics |-> [ImageDiagnostics EXCEPT
                                   !.raw_lines = Len(lines),
                                   !.elapsed_ms = env.elapsed_ms_at_exit,
                                   !.timed_out = env.elapsed_ms_at_exit > time_budget_ms]]

\* the environments of the image collector inside one line-assist run
ImageLineEnvs ==
    {[cv2_available |-> TRUE, elapsed_ms_at_entry |-> 10, elapsed_ms_at_exit |-> 60,
      processing_raises |-> FALSE],
     [cv2_available |-> TRUE, elapsed_ms_at_entry |-> 300, elapsed_ms_at_exit |-> 300,
      processing_raises |-> FALSE]}

\* _should_run_line_assist: TRUE when at least one trigger reason applies
_should_run_line_assist(rows, centers, bounds) ==
    LET total == Len(rows)
        continuation_rows == {i \in DOMAIN rows :
                                  rows[i].equivalent_model # "" /\ rows[i].equipment = ""}
        sorted_centers == QSorted(centers)
        cross_model == {i \in DOMAIN rows :
                            Abs(rows[i].model_x - rows[i].row_x) > CROSS_MODEL_DISTANCE}
        section_width == Max2(bounds.x_max - bounds.x_min, 1)
    IN  /\ total # 0
        /\ \/ /\ Cardinality(continuation_rows) >= CONTINUATION_MIN_ROWS
              /\ 100 * Cardinality(continuation_rows) >= 35 * Max2(total, 1)
           \/ /\ Len(sorted_centers) >= 2
              /\ \E k \in 1..(Len(sorted_centers) - 1) :
                     QLess(QAbs(QSub(sorted_centers[k + 1], sorted_centers[k])),
                           Q(DENSE_CENTER_GAP))
           \/ Cardinality(cross_model) >= CROSS_MODEL_MIN_ROWS
           \/ total <= SPARSE_MAX_ROWS /\ section_width > WIDE_SECTION_WIDTH

ShouldRunAssistForceUsesTriggers(config, rows, centers, bounds) ==
    /\ config.mode \in {"auto", "force"}
    /\ _should_run_line_assist(rows, centers, bounds)

\* should_run_assist of the section loop
ShouldRunAssist(config, rows, centers, bounds) ==
    \/ config.mode = "force"
    \/ config.mode = "auto" /\ _should_run_line_assist(rows, centers, bounds)

InitSection ==
    /\ section_pc = "extracted"
    /\ section_candidates \in SectionLists
    /\ section_bounds = _section_bounds_from_clusters(section_candidates)
    /\ x_centers = <<>>
    /\ line_assist_config \in LineAssistConfigs
    /\ assist_info = <<>>
    /\ IdleNotSection

\* x_centers = _cluster_x_positions(x_values, 220);
\* _assign_block_indexes_with_centers(section_candidates, x_centers)
AssignBlockIndexes ==
    /\ section_pc = "extracted"
    /\ LET centers == _cluster_x_positions(SectionXValues(section_candidates),
                                           BLOCK_CLUSTER_TOLERANCE)
       IN  /\ x_centers' = centers
           /\ section_candidates' =
                  _assign_block_indexes_with_centers(section_candidates, centers)
    /\ section_pc' = "assigned"
    /\ UNCHANGED <<section_bounds, line_assist_config, assist_info, notSectionVars>>

\* the e251 extractor's block assignment of the same candidates
E251AssignBlockIndexes ==
    /\ section_pc = "extracted"
    /\ x_centers' = _cluster_x_positions(
                        [i \in DOMAIN section_candidates |-> Q(section_candidates[i].row_x)],
                        E251_BLOCK_CLUSTER_TOLERANCE)
    /\ section_candidates' = e251_assign_block_indexes(section_candidates)
    /\ section_pc' = "e251_assigned"
    /\ UNCHANGED <<section_bounds, line_assist_config, assist_info, notSectionVars>>

\* should_run_assist is false: assist_info keeps its defaults
SkipLineAssist ==
    /\ section_pc = "assigned"
    /\ ~ShouldRunAssist(line_assist_config, section_candidates, x_centers, section_bounds)
    /\ assist_info' = [triggered |-> FALSE,
                       info |-> [InitialAssistInfo EXCEPT
                                     !.rejected_reason = "mode_off_or_not_triggered"]]
    /\ section_pc' = "gated"
    /\ UNCHANGED <<section_candidates, section_bounds, x_centers, line_assist_config, notSectionVars>>

\* should_run_assist is true: _apply_line_assist_if_confident is called
RunLineAssist ==
    /\ section_pc = "assigned"
    /\ ShouldRunAssist(line_assist_config, section_candidates, x_centers, section_bounds)
    /\ \E drawnVector \in DrawnVectorLines, drawnImage \in DrawnImageLines, env \in ImageLineEnvs :
           LET applied == _apply_line_assist_if_confident(
                              section_candidates, section_bounds.x_min, section_bounds.x_max,
                              x_centers,
                              _collect_vector_vertical_lines(drawnVector, section_bounds),
                              _collect_image_vertical_lines(drawnImage, section_bounds,
                                  line_assist_config.latency_budget_ms, env).lines,
                              line_assist_config.min_confidence)
           IN  /\ assist_info' = [triggered |-> TRUE, info |-> applied.info]
               /\ section_candidates' = applied.rows
    /\ section_pc' = "gated"
    /\ UNCHANGED <<section_bounds, x_centers, line_assist_config, notSectionVars>>

\* the final _propagate_equipment_in_section(section_candidates)
PropagateSection ==
    /\ section_pc = "gated"
    /\ section_candidates' = _propagate_equipment_in_section(section_candidates)
    /\ section_pc' = "propagated"
    /\ UNCHANGED <<section_bounds, x_centers, line_assist_config, assist_info, notSectionVars>>

NextSection ==
    \/ AssignBlockIndexes
    \/ E251AssignBlockIndexes
    \/ SkipLineAssist
    \/ RunLineAssist
    \/ PropagateSection

SpecSection == InitSection /\ [][NextSection]_vars

\* ---- properties of the section ----
AfterGate == section_pc \in {"gated", "propagated"}

\* C1: after _propagate_equipment_in_section, a record whose symbol was empty
\* before and is non-empty after holds the symbol of another record at most
\* 120px away in row_y; a record with no symbol-carrying record within 120px
\* still has an empty symbol.
C1_PropagatedSymbolSourceWithinMaxDistance ==
    [][(section_pc = "gated" /\ section_pc' = "propagated") =>
          \A i \in DOMAIN section_candidates :
              (section_candidates[i].equipment = "" /\ section_candidates'[i].equipment # "")
              => \E j \in DOMAIN section_candidates :
                     /\ j # i
                     /\ section_candidates'[j].equipment = section_candidates'[i].equipment
                     /\ Abs(section_candidates[j].row_y - section_candidates[i].row_y)
                            <= MAX_PROPAGATION_DISTANCE]_vars

\* C2: whenever the gate adopts, the unresolved count under the line-derived
\* assignment is not greater than under the baseline assignment.
C2_AdoptionNeverIncreasesUnresolved ==
    (AfterGate /\ assist_info.info.adopted)
        => assist_info.info.assisted_unresolved <= assist_info.info.baseline_unresolved

\* C6: block assignment keeps every record, changes nothing but block_index,
\* and gives each record a valid index into the block centers (0 without
\* centers).
C6_BlockAssignmentKeepsRecordsAndIndexesValid ==
    [][(section_pc = "extracted" /\ section_pc' # "extracted") =>
          /\ Len(section_candidates') = Len(section_candidates)
          /\ \A i \in DOMAIN section_candidates :
                 /\ section_candidates'[i] =
                        [section_candidates[i] EXCEPT
                             !.block_index = section_candidates'[i].block_index]
                 /\ IF x_centers' = <<>>
                    THEN section_candidates'[i].block_index = 0
                    ELSE section_candidates'[i].block_index \in 0..(Len(x_centers') - 1)]_vars

\* a section assigned over two block centers, with records in both blocks
C6_Witness ==
    /\ section_pc \in {"assigned", "e251_assigned"}
    /\ Len(x_centers) >= 2
    /\ \E i, j \in DOMAIN section_candidates :
           section_candidates[i].block_index = 0 /\ section_candidates[j].block_index = 1

\* C9 as stated: with mode off line detection is never run for the section,
\* with mode force it is run for the section.
C9_ForceAlwaysRunsOffNeverRuns ==
    AfterGate =>
        /\ line_assist_config.mode = "off" => ~assist_info.info.invoked
        /\ line_assist_config.mode = "force" => assist_info.info.invoked

\* C9 amended: with mode off the gate is not entered and line detection is
\* not run; with mode force the gate is entered for every section, and line
\* detection is run exactly for the sections that hold a candidate record.
C9_ForceRunsOnNonEmptySectionsOffNeverRuns ==
    AfterGate =>
        /\ line_assist_config.mode = "off"
               => ~assist_info.triggered /\ ~assist_info.info.invoked
        /\ line_assist_config.mode = "force"
               => /\ assist_info.triggered
                  /\ assist_info.info.invoked <=> section_candidates # <<>>

\* mode force ran line detection on a section the trigger heuristics pass by
C9_Witness ==
    /\ AfterGate
    /\ line_assist_config.mode = "force"
    /\ assist_info.info.invoked
    /\ ~_should_run_line_assist(section_candidates, x_centers, section_bounds)

\* C10: the gate reports adopted exactly when the confidence is at least the
\* minimum, a line-derived block exists, and the assisted unresolved count is
\* lower than the baseline count or the assisted alignment distance is lower
\* than the baseline distance by more than 1.0.
C10_AdoptedExactlyOnConfidenceBlocksAndGain ==
    AfterGate =>
        LET i == assist_info.info
            confident == QLeq(line_assist_config.min_confidence, i.confidence)
        IN  /\ (i.invoked /\ confident /\ i.line_block_count >= 1) => i.measured
            /\ i.adopted <=>
                   /\ i.invoked
                   /\ confident
                   /\ i.line_block_count >= 1
                   /\ i.measured
                   /\ \/ i.assisted_unresolved < i.baseline_unresolved
                      \/ QLess(QAdd(i.assisted_alignment, Q(1)), i.baseline_alignment)

\* the gate adopted on a lower unresolved count
C10_Witness ==
    /\ AfterGate
    /\ assist_info.info.adopted
    /\ assist_info.info.assisted_unresolved < assist_info.info.baseline_unresolved

\* C18: a call to _apply_line_assist_if_confident changes nothing in
\* section_candidates except block_index, and block_index only when it
\* adopts: on every rejection the records are exactly as before the call.
C18_GateChangesOnlyBlockIndexAndOnlyOnAdoption ==
    [][(section_pc = "assigned" /\ section_pc' = "gated") =>
          /\ DOMAIN section_candidates' = DOMAIN section_candidates
          /\ \A i \in DOMAIN section_candidates :
                 [section_candidates'[i] EXCEPT !.block_index = section_candidates[i].block_index]
                     = section_candidates[i]
          /\ ~assist_info'.info.adopted => section_candidates' = section_candidates]_vars

\* the gate adopted block indexes that differ from the baseline assignment,
\* in a section with a record whose symbol the trial propagation filled
C18_Witness ==
    /\ section_pc = "gated"
    /\ assist_info.info.adopted
    /\ \E i \in DOMAIN section_candidates :
           section_candidates[i].block_index
               # _assign_block_indexes_with_centers(section_candidates, x_centers)[i].block_index
    /\ \E i \in DOMAIN section_candidates :
           /\ section_candidates[i].equipment = ""
           /\ _propagate_equipment_in_section(section_candidates)[i].equipment # ""

\* C19: continuation propagation changes no field of a record other than
\* its symbol and its block_index; in particular model_x stays the position
\* of the record's own model token.
C19_PropagationChangesOnlySymbolAndBlockIndex ==
    [][(section_pc = "gated" /\ section_pc' = "propagated") =>
          /\ DOMAIN section_candidates' = DOMAIN section_candidates
          /\ \A i \in DOMAIN section_candidates :
                 [section_candidates'[i] EXCEPT !.equipment = section_candidates[i].equipment,
                                                !.block_index = section_candidates[i].block_index]
                     = section_candidates[i]]_vars

\* C28: after the gate measured a section, the final propagation gives
\* every record the symbol it had in the trial run the gate decided for: the
\* assisted trial run after an adoption, with the final unresolved count
\* equal to the assisted count, and the baseline trial run after a rejection.
C28_FinalPropagationMatchesMeasuredTrial ==
    (section_pc = "propagated" /\ assist_info.triggered /\ assist_info.info.measured)
        => IF assist_info.info.adopted
           THEN /\ Symbols(section_candidates) = assist_info.info.assisted_symbols
                /\ _count_unresolved_equipment(section_candidates)
                       = assist_info.info.assisted_unresolved
           ELSE /\ Symbols(section_candidates) = assist_info.info.baseline_symbols
                /\ _count_unresolved_equipment(section_candidates)
                       = assist_info.info.baseline_unresolved

\* the section was propagated after an adoption whose assisted trial run
\* resolved a record that the baseline trial run left without a symbol
C28_Witness ==
    /\ section_pc = "propagated"
    /\ assist_info.triggered
    /\ assist_info.info.adopted
    /\ assist_info.info.assisted_symbols # assist_info.info.baseline_symbols
    /\ assist_info.info.assisted_unresolved < assist_info.info.baseline_unresolved

\* C29: when neither the vector source nor the image source yields a
\* vertical line for a section, the gate does not adopt and the section
\* keeps its baseline block assignment.
C29_NoLinesNoAdoption ==
    (AfterGate /\ assist_info.triggered
        /\ assist_info.info.vector_line_count = 0 /\ assist_info.info.image_line_count = 0)
        => ~assist_info.info.adopted

(***************************************************************************)
(* raster: infer_column_bounds                                             *)
(*                                                                         *)
(* A text is a sequence of characters.  The characters of the header       *)
(* keywords are written by code point: U+6A5F U+5668 (kiki, "equipment"),  *)
(* U+8A18 U+53F7 (kigou, "symbol"), U+540D U+79F0 (meishou, "name"),       *)
(* U+96FB U+5727 (den-atsu, "voltage"), U+5BB9 U+91CF (youryou,            *)
(* "capacity"), U+914D U+7BA1 (haikan, "piping"), U+914D U+7DDA (haisen,   *)
(* "wiring"), U+30B5 U+30A4 U+30BA (saizu, "size").                        *)
(***************************************************************************)
MaxHeaderWords == 2

HEADER_Y_CLUSTER == 22
DEFAULT_CENTER_RATIOS == <<<<24, 100>>, <<35, 100>>, <<40, 100>>, <<44, 100>>>>
HEADER_X_MAX_RATIO == <<55, 100>>
NAME_MIN_OFFSET == 60
VOLTAGE_MIN_OFFSET == 20
POWER_MIN_OFFSET == 20
SIZE_MIN_OFFSET == 30
NAME_CLAMP_GAP == 40
NAME_CLAMP_SHIFT == 120
VOLTAGE_CLAMP_GAP == 30
VOLTAGE_CLAMP_SHIFT == 90
POWER_CLAMP_GAP == 20
POWER_CLAMP_SHIFT == 80
RIGHT_GUARD_MIN_GAP == 35
RIGHT_GUARD_B34_MARGIN == 15
BOUNDS_EDGE_PADDING == 90
BOUNDS_X_MAX_FALLBACK_PADDING == 60

\* Python's None for an Optional[float]; a float is a fraction <<n, d>>
None == <<>>

\* unicodedata.normalize("NFKC", c) on the characters of the vocabulary:
\* the fullwidth forms become their ASCII counterparts
NormalizeChar(c) ==
    CASE c = "U+FF08" -> "("
      [] c = "U+FF09" -> ")"
      [] c = "U+FF36" -> "V"
      [] OTHER -> c

\* str.lower() on the characters of the vocabulary
LowerChar(c) ==
    CASE c = "V" -> "v"
      [] c = "W" -> "w"
      [] c = "K" -> "k"
      [] OTHER -> c

\* normalize_text(text).lower()
NormalizedLower(text) == [i \in DOMAIN text |-> LowerChar(NormalizeChar(text[i]))]

\* pattern in text
Contains(text, pattern) ==
    \E i \in 1..(Len(text) - Len(pattern) + 1) :
        SubSeq(text, i, i + Len(pattern) - 1) = pattern

RECURSIVE Concat(_)
Concat(texts) == IF texts = <<>> THEN <<>> ELSE Head(texts) \o Concat(Tail(texts))

\* sorted(ws, key=lambda w: w.cx), stable
SortedByCx(ws) ==
    LET order == SortIdx(DOMAIN ws, [i \in DOMAIN ws |-> <<ws[i].cx>>])
    IN  [k \in DOMAIN order |-> ws[order[k]]]

\* row_text: the texts of the cluster's words joined in cx order
row_text(cluster) ==
    LET ws == SortedByCx(cluster.words)
    IN  Concat([k \in DOMAIN ws |-> ws[k].text])

header_score(cluster) ==
    LET text == NormalizedLower(row_text(cluster))
        Hit(cond) == IF cond THEN 1 ELSE 0
    IN  Hit(Contains(text, <<"U+6A5F", "U+5668">>))
        + Hit(Contains(text, <<"U+8A18", "U+53F7">>))
        + Hit(Contains(text, <<"U+540D", "U+79F0">>))
        + Hit(\/ Contains(text, <<"U+96FB", "U+5727">>)
              \/ Contains(text, <<"(", "v">>)
              \/ Contains(text, <<"v", ")">>))
        + Hit(\/ Contains(text, <<"k", "w">>)
              \/ Contains(text, <<"U+5BB9", "U+91CF">>))

\* key = (-s, c.row_y), compared as tuples
HeaderKeyLess(s1, y1, s2, y2) ==
    \/ -s1 < -s2
    \/ -s1 = -s2 /\ QLess(y1, y2)

\* the loop that keeps the cluster of the smallest key; best_tuple starts at
\* (-1, inf), so a cluster of score 0 is never taken.  0 when best is None.
RECURSIVE BestHeaderFrom(_, _, _)
BestHeaderFrom(cs, i, best) ==
    IF i > Len(cs) THEN best
    ELSE LET s == header_score(cs[i])
             better == IF best = 0
                       THEN -s < -1 \/ -s = -1
                       ELSE HeaderKeyLess(s, cs[i].row_y,
                                          header_score(cs[best]), cs[best].row_y)
         IN  BestHeaderFrom(cs, i + 1, IF better THEN i ELSE best)

BestHeader(cs) == BestHeaderFrom(cs, 1, 0)

\* statistics.median of a sorted, non-empty list of fractions
Median(values) ==
    LET n == Len(values)
    IN  IF n % 2 = 1 THEN values[(n + 1) \div 2]
        ELSE QDivN(QAdd(values[n \div 2], values[n \div 2 + 1]), 2)

\* find_x: the cx of the header words whose text satisfies the predicate
\* (contains one of patterns, or equals one of exact) strictly between x_min
\* and x_max; None when there is none
find_x(header_words, patterns, exact, x_min, x_max, pick) ==
    LET keep == {i \in DOMAIN header_words :
                    LET w == header_words[i]
                        text == NormalizedLower(w.text)
                    IN  /\ ~(x_min # None /\ QLeq(Q(w.cx), x_min))
                        /\ ~(x_max # None /\ QLeq(x_max, Q(w.cx)))
                        /\ \/ \E p \in patterns : Contains(text, p)
                           \/ text \in exact}
        values == SelectIdx([i \in DOMAIN header_words |-> Q(header_words[i].cx)], keep)
    IN  IF values = <<>> THEN None
        ELSE IF pick = "min" THEN QSorted(values)[1]
        ELSE IF pick = "max" THEN QSorted(values)[Len(values)]
        ELSE Median(QSorted(values))

\* (c or 0)
OrZero(c) == IF c = None THEN Q(0) ELSE c

DefaultCenter(width, i) == QMul(Q(width), DEFAULT_CENTER_RATIOS[i])

build_bounds_from_centers(centers, header_y, width) ==
    LET c1 == centers[1]
        c2 == centers[2]
        c3 == centers[3]
        c4 == centers[4]
        b12 == QDivN(QAdd(c1, c2), 2)
        b23 == QDivN(QAdd(c2, c3), 2)
        b34 == QDivN(QAdd(c3, c4), 2)
        x_min == QMax(Q(0), QSub(c1, Q(BOUNDS_EDGE_PADDING)))
        x_max0 == QMin(Q(width), QAdd(c4, Q(BOUNDS_EDGE_PADDING)))
        x_max == IF QLeq(x_max0, b34)
                 THEN QMin(Q(width), QAdd(b34, Q(BOUNDS_X_MAX_FALLBACK_PADDING)))
                 ELSE x_max0
    IN  [x_min |-> x_min, b12 |-> b12, b23 |-> b23, b34 |-> b34, x_max |-> x_max,
         header_y |-> header_y]

DefaultBounds(width) ==
    build_bounds_from_centers([i \in 1..4 |-> DefaultCenter(width, i)], Q(0), width)

\* body(v) for the value v, computed once as an assignment to a local is
Bind(v, body(_)) == CHOOSE r \in {body(x) : x \in {v}} : TRUE

\* the `if c is None: c = find_x(...)` fallback
IfNone(c, fallback) == IF c # None THEN c ELSE fallback

\* c1 .. c5 as find_x locates them, each search starting right of the
\* previous center (or of 0)
FindCenters(header_words, width) ==
    LET header_x_max == QMul(Q(width), HEADER_X_MAX_RATIO)
    IN
    Bind(IfNone(find_x(header_words, {<<"U+8A18", "U+53F7">>}, {}, None, header_x_max, "max"),
                find_x(header_words, {<<"U+6A5F", "U+5668">>}, {}, None, header_x_max, "max")),
         LAMBDA c1 :
    Bind(QAdd(OrZero(c1), Q(NAME_MIN_OFFSET)), LAMBDA c2_min :
    Bind(IfNone(find_x(header_words, {<<"U+540D", "U+79F0">>}, {}, c2_min, header_x_max, "max"),
                find_x(header_words, {<<"U+540D">>, <<"U+79F0">>}, {}, c2_min, header_x_max,
                       "median")),
         LAMBDA c2 :
    Bind(find_x(header_words, {<<"v">>, <<"U+96FB", "U+5727">>}, {<<"U+96FB">>},
                QAdd(OrZero(c2), Q(VOLTAGE_MIN_OFFSET)), header_x_max, "min"),
         LAMBDA c3 :
    Bind(QAdd(OrZero(c3), Q(POWER_MIN_OFFSET)), LAMBDA c4_min :
    Bind(IfNone(find_x(header_words, {<<"k", "w">>}, {}, c4_min, header_x_max, "min"),
                find_x(header_words, {<<"U+5BB9", "U+91CF">>}, {}, c4_min, header_x_max, "min")),
         LAMBDA c4 :
    Bind(find_x(header_words,
                {<<"U+914D", "U+7BA1">>, <<"U+914D", "U+7DDA">>,
                 <<"U+30B5", "U+30A4", "U+30BA">>, <<"s", "i", "z", "e">>},
                {<<"U+914D">>, <<"U+7DDA">>, <<"U+30B5">>, <<"U+30BA">>},
                QAdd(OrZero(c4), Q(SIZE_MIN_OFFSET)), None, "min"),
         LAMBDA c5 : <<c1, c2, c3, c4, c5>>)))))))

\* the centers with the defaults filled in and pushed apart: c1f .. c4f
ClampCenters(found, width) ==
    Bind(IfNone(found[1], DefaultCenter(width, 1)), LAMBDA c1f :
    Bind(IfNone(found[2], DefaultCenter(width, 2)), LAMBDA c2 :
    Bind(IF QLeq(c2, QAdd(c1f, Q(NAME_CLAMP_GAP)))
         THEN QAdd(c1f, Q(NAME_CLAMP_SHIFT)) ELSE c2, LAMBDA c2f :
    Bind(IfNone(found[3], DefaultCenter(width, 3)), LAMBDA c3 :
    Bind(IF QLeq(c3, QAdd(c2f, Q(VOLTAGE_CLAMP_GAP)))
         THEN QAdd(c2f, Q(VOLTAGE_CLAMP_SHIFT)) ELSE c3, LAMBDA c3f :
    Bind(IfNone(found[4], DefaultCenter(width, 4)), LAMBDA c4 :
    Bind(IF QLeq(c4, QAdd(c3f, Q(POWER_CLAMP_GAP)))
         THEN QAdd(c3f, Q(POWER_CLAMP_SHIFT)) ELSE c4, LAMBDA c4f :
         <<c1f, c2f, c3f, c4f>>)))))))

\* x_max pulled in to the midpoint of c4f and c5 when c5 lies well right of
\* c4f and that midpoint lies well right of b34
ApplyRightGuard(bounds, c4f, c5) ==
    IF c5 # None /\ QLess(QAdd(c4f, Q(RIGHT_GUARD_MIN_GAP)), c5)
    THEN Bind(QDivN(QAdd(c4f, c5), 2), LAMBDA right_guard :
              IF QLess(QAdd(bounds.b34, Q(RIGHT_GUARD_B34_MARGIN)), right_guard)
              THEN [bounds EXCEPT !.x_max = QMin(bounds.x_max, right_guard)]
              ELSE bounds)
    ELSE bounds

InferFromHeader(best, width) ==
    Bind(FindCenters(SortedByCx(best.words), width), LAMBDA found :
    Bind(ClampCenters(found, width), LAMBDA centers :
    Bind(build_bounds_from_centers(centers, best.row_y, width), LAMBDA bounds :
         ApplyRightGuard(bounds, centers[4], found[5]))))

infer_column_bounds(ws, width) ==
    Bind(cluster_by_y(ws, HEADER_Y_CLUSTER), LAMBDA cs :
         IF cs = <<>> THEN DefaultBounds(width)
         ELSE Bind(BestHeader(cs), LAMBDA best :
                   IF best = 0 \/ header_score(cs[best]) < 2 THEN DefaultBounds(width)
                   ELSE InferFromHeader(cs[best], width)))

\* ---- the words and widths infer_column_bounds is called with ----
\* OCR texts: kiki-kigou in one word, kiki, meishou, den-atsu (V) with
\* fullwidth parentheses, youryou (kW), haikan
HeaderTexts ==
    {<<"U+6A5F", "U+5668", "U+8A18", "U+53F7">>,
     <<"U+6A5F", "U+5668">>,
     <<"U+540D", "U+79F0">>,
     <<"U+96FB", "U+5727", "U+FF08", "V", "U+FF09">>,
     <<"U+5BB9", "U+91CF", "(", "k", "W", ")">>,
     <<"U+914D", "U+7BA1">>}

HeaderCxs == {100, 200, 230, 600}

HeaderCys == {10, 40}

\* widths of the crops and side images handed in
SideWidths == {420, 1000}

TableWord == [text : HeaderTexts, cx : HeaderCxs, cy : HeaderCys]

TableWordLists == UNION {[1..n -> TableWord] : n \in 0..MaxHeaderWords}

InitBounds ==
    /\ side_width \in SideWidths
    /\ table_words \in TableWordLists
    /\ \A i \in DOMAIN table_words : table_words[i].cx < side_width
    /\ column_bounds = <<>>
    /\ inferred = FALSE
    /\ IdleNotBounds

CallInferColumnBounds ==
    /\ ~inferred
    /\ column_bounds' = infer_column_bounds(table_words, side_width)
    /\ inferred' = TRUE
    /\ UNCHANGED <<table_words, side_width, notBoundsVars>>

NextBounds == CallInferColumnBounds

SpecBounds == InitBounds /\ [][NextBounds]_vars

\* C3: the bounds returned by infer_column_bounds are strictly increasing:
\* x_min < b12 < b23 < b34 < x_max.
C3_BoundsStrictlyIncreasing ==
    inferred =>
        /\ QLess(column_bounds.x_min, column_bounds.b12)
        /\ QLess(column_bounds.b12, column_bounds.b23)
        /\ QLess(column_bounds.b23, column_bounds.b34)
        /\ QLess(column_bounds.b34, column_bounds.x_max)

(***************************************************************************)
(* raster: the bottom-expansion loop of parse_table_candidate              *)
(***************************************************************************)
MaxRowCount == 2

TABLE_TRAILING_NON_DATA_GAP == 1
TABLE_BOTTOM_NEAR_EDGE_PX == 28
TABLE_BOTTOM_EXPAND_STEP_PX == 36
TABLE_BOTTOM_EXPAND_MAX_TRIES == 6
TABLE_BOTTOM_EXPAND_MAX_RATIO == <<45, 100>>
TABLE_BOTTOM_EXPAND_NO_GROWTH_STREAK == 2
Y_CLUSTER_EDGE_FACTOR == 3

\* prev_row_count before the first iteration (None)
NoRowCount == -1

\* last_data_cluster_bottom of a result without data (None)
NoDataBottom == -1

\* int(x) for a fraction x >= 0
QFloor(a) == a[1] \div a[2]

\* candidate.bbox = (x0, y0, x1, y1), page_image.size and y_cluster: a tall
\* candidate with room below it, a candidate whose expansion limit is not a
\* whole pixel, one near the page bottom, one across the page bottom, and
\* one of no width
ParseCandidates ==
    {[x0 |-> 0,  y0 |-> 0,   x1 |-> 400, y1 |-> 480, page_w |-> 1000, page_h |-> 1000],
     [x0 |-> 0,  y0 |-> 100, x1 |-> 400, y1 |-> 201, page_w |-> 1000, page_h |-> 1000],
     [x0 |-> 0,  y0 |-> 100, x1 |-> 400, y1 |-> 200, page_w |-> 1000, page_h |-> 210],
     [x0 |-> 0,  y0 |-> 100, x1 |-> 400, y1 |-> 300, page_w |-> 1000, page_h |-> 250],
     [x0 |-> 50, y0 |-> 100, x1 |-> 50,  y1 |-> 200, page_w |-> 1000, page_h |-> 1000]}

YClusters == {8, 20}

\* distance of the last data row's bottom from the crop bottom
EdgeGaps == {0, 40}

left == Max2(0, parse_input.x0)

top == Max2(0, parse_input.y0)

right == Min2(parse_input.page_w, parse_input.x1)

initial_bottom == Min2(parse_input.page_h, parse_input.y1)

initial_height == Max2(1, parse_input.y1 - parse_input.y0)

max_bottom ==
    QMin(Q(parse_input.page_h),
         QAdd(Q(parse_input.y1), QMul(Q(initial_height), TABLE_BOTTOM_EXPAND_MAX_RATIO)))

crop_bbox == <<left, top, right, QFloor(QMin(Q(parse_input.page_h), current_bottom))>>

DegenerateCrop(bbox) == bbox[3] <= bbox[1] \/ bbox[4] <= bbox[2]

\* what _rows_from_words_with_meta can return for a crop of the given height:
\* saw_data, a last data bottom and a non-empty row list come together, and
\* trailing non-data rows are counted only after data, up to one past the gap;
\* no words at all gives the empty result
RowsFromWordsResults(crop_height) ==
    {[row_count |-> 0, saw_data |-> FALSE, last_data_cluster_bottom |-> NoDataBottom,
      trailing_non_data_count |-> 0, stopped_by_footer |-> f] : f \in BOOLEAN}
    \cup
    {[row_count |-> n, saw_data |-> TRUE, last_data_cluster_bottom |-> crop_height - g,
      trailing_non_data_count |-> k, stopped_by_footer |-> f] :
         n \in 1..MaxRowCount, g \in {e \in EdgeGaps : e <= crop_height},
         k \in 0..(TABLE_TRAILING_NON_DATA_GAP + 1), f \in BOOLEAN}

ReachedMaxTriesNever(a) == FALSE

\* attempt >= TABLE_BOTTOM_EXPAND_MAX_TRIES
ReachedMaxTries(a) == a >= TABLE_BOTTOM_EXPAND_MAX_TRIES

StoppedByFooterIgnored(r) == FALSE

\* rows_result.stopped_by_footer
StoppedByFooter(r) == r.stopped_by_footer

near_edge_threshold == Max2(TABLE_BOTTOM_NEAR_EDGE_PX, parse_input.y_cluster * Y_CLUSTER_EDGE_FACTOR)

near_bottom_edge(bbox, r) ==
    /\ r.last_data_cluster_bottom # NoDataBottom
    /\ bbox[4] - (bbox[2] + r.last_data_cluster_bottom) <= near_edge_threshold

should_expand(bbox, r) ==
    /\ r.saw_data
    /\ \/ near_bottom_edge(bbox, r)
       \/ r.trailing_non_data_count >= TABLE_TRAILING_NON_DATA_GAP

NextNoGrowthStreak(r) ==
    IF prev_row_count # NoRowCount /\ r.row_count <= prev_row_count
    THEN no_growth_streak + 1
    ELSE 0

NextBottomUncapped(bbox) == Q(bbox[4] + TABLE_BOTTOM_EXPAND_STEP_PX)

\* min(max_bottom, float(crop_bbox[3]) + TABLE_BOTTOM_EXPAND_STEP_PX)
next_bottom(bbox) == QMin(max_bottom, Q(bbox[4] + TABLE_BOTTOM_EXPAND_STEP_PX))

StreakStopsAlsoNearEdge(streak, near_edge) == streak >= TABLE_BOTTOM_EXPAND_NO_GROWTH_STREAK

\* no_growth_streak >= TABLE_BOTTOM_EXPAND_NO_GROWTH_STREAK and not near_bottom_edge
StreakStops(streak, near_edge) ==
    streak >= TABLE_BOTTOM_EXPAND_NO_GROWTH_STREAK /\ ~near_edge

InitParse ==
    /\ \E c \in ParseCandidates, y \in YClusters :
           /\ parse_input = [x0 |-> c.x0, y0 |-> c.y0, x1 |-> c.x1, y1 |-> c.y1,
                             page_w |-> c.page_w, page_h |-> c.page_h, y_cluster |-> y]
           /\ current_bottom = Q(Min2(c.page_h, c.y1))
           /\ final_crop_bbox = <<Max2(0, c.x0), Max2(0, c.y0), Min2(c.page_w, c.x1),
                                  Min2(c.page_h, c.y1)>>
    /\ parse_pc = "loop"
    /\ attempt = 0
    /\ expand_attempts = 0
    /\ no_growth_streak = 0
    /\ prev_row_count = NoRowCount
    /\ rows_result = [row_count |-> 0, saw_data |-> FALSE, last_data_cluster_bottom |-> NoDataBottom,
                      trailing_non_data_count |-> 0, stopped_by_footer |-> FALSE]
    /\ ocr_calls = 0
    /\ stop_reason = ""
    /\ IdleNotParse

\* the crop has no width or no height: the loop is left before any OCR call
BreakOnDegenerateCrop ==
    /\ parse_pc = "loop"
    /\ DegenerateCrop(crop_bbox)
    /\ parse_pc' = "done"
    /\ stop_reason' = "degenerate_crop"
    /\ UNCHANGED <<parse_input, attempt, current_bottom, expand_attempts, no_growth_streak,
                   prev_row_count, rows_result, final_crop_bbox, ocr_calls, notParseVars>>

\* one iteration of the loop: crop, OCR, rows, and the chain of break tests
ParseAttempt ==
    /\ parse_pc = "loop"
    /\ ~DegenerateCrop(crop_bbox)
    /\ \E r \in RowsFromWordsResults(crop_bbox[4] - crop_bbox[2]) :
        LET bbox == crop_bbox
            before_growth_test ==
                \/ StoppedByFooter(r)
                \/ ReachedMaxTries(attempt)
                \/ bbox[4] >= parse_input.page_h
                \/ ~should_expand(bbox, r)
            streak == NextNoGrowthStreak(r)
            after_growth_test ==
                \/ StreakStops(streak, near_bottom_edge(bbox, r))
                \/ QLeq(next_bottom(bbox), Q(bbox[4]))
        IN  /\ rows_result' = r
            /\ final_crop_bbox' = bbox
            /\ ocr_calls' = ocr_calls + 1
            /\ IF before_growth_test
               THEN /\ parse_pc' = "done"
                    /\ stop_reason' = IF StoppedByFooter(r) THEN "footer"
                                      ELSE IF ReachedMaxTries(attempt) THEN "attempt_limit"
                                      ELSE IF bbox[4] >= parse_input.page_h THEN "page_bottom"
                                      ELSE "should_not_expand"
                    /\ UNCHANGED <<attempt, current_bottom, expand_attempts,
                                   no_growth_streak, prev_row_count>>
               ELSE /\ no_growth_streak' = streak
                    /\ prev_row_count' = r.row_count
                    /\ IF after_growth_test
                       THEN /\ parse_pc' = "done"
                            /\ stop_reason' =
                                   IF StreakStops(streak, near_bottom_edge(bbox, r))
                                   THEN "no_growth_streak" ELSE "growth_limit"
                            /\ UNCHANGED <<attempt, current_bottom, expand_attempts>>
                       ELSE /\ current_bottom' = next_bottom(bbox)
                            /\ expand_attempts' = expand_attempts + 1
                            /\ attempt' = attempt + 1
                            /\ parse_pc' = IF attempt + 1 > TABLE_BOTTOM_EXPAND_MAX_TRIES
                                           THEN "done" ELSE "loop"
                            /\ stop_reason' = IF attempt + 1 > TABLE_BOTTOM_EXPAND_MAX_TRIES
                                              THEN "range_end" ELSE ""
    /\ UNCHANGED <<parse_input, notParseVars>>

NextParse == BreakOnDegenerateCrop \/ ParseAttempt

\* the loop is sequential code: an iteration that can run does run
SpecParse == InitParse /\ [][NextParse]_vars /\ WF_vars(NextParse)

\* C5: parse_table_candidate makes at most TABLE_BOTTOM_EXPAND_MAX_TRIES + 1
\* OCR calls, reports at most TABLE_BOTTOM_EXPAND_MAX_TRIES expand_attempts,
\* and leaves the loop.
C5_AtMostSevenOcrCallsAndTerminates ==
    /\ [](/\ ocr_calls <= TABLE_BOTTOM_EXPAND_MAX_TRIES + 1
          /\ expand_attempts <= TABLE_BOTTOM_EXPAND_MAX_TRIES)
    /\ <>(parse_pc = "done")

\* the loop ended after the seventh OCR call with six expansions
C5_Witness ==
    /\ parse_pc = "done"
    /\ ocr_calls = TABLE_BOTTOM_EXPAND_MAX_TRIES + 1
    /\ expand_attempts = TABLE_BOTTOM_EXPAND_MAX_TRIES

\* C16: once the row parse of a crop stopped at a footer row the loop is
\* left with no further expansion and no further OCR call; with a footer in
\* the first crop there is exactly one OCR call and expand_attempts is 0.
C16_FooterStopEndsTheLoop ==
    (ocr_calls > 0 /\ rows_result.stopped_by_footer)
        => /\ parse_pc = "done"
           /\ expand_attempts = ocr_calls - 1
           /\ ocr_calls = 1 => expand_attempts = 0

\* a footer in the first crop of a candidate whose rows reach the crop's
\* bottom edge above the page's bottom: without the footer the loop would
\* have expanded
C16_Witness ==
    /\ parse_pc = "done"
    /\ ocr_calls = 1
    /\ expand_attempts = 0
    /\ rows_result.stopped_by_footer
    /\ rows_result.saw_data
    /\ rows_result.trailing_non_data_count >= TABLE_TRAILING_NON_DATA_GAP
    /\ final_crop_bbox[4] < parse_input.page_h

\* min(page height, candidate bottom + 0.45 x candidate height), from the
\* candidate box and the page alone
GrowthCeiling ==
    QMin(Q(parse_input.page_h),
         QAdd(Q(parse_input.y1),
              QMul(Q(parse_input.y1 - parse_input.y0), TABLE_BOTTOM_EXPAND_MAX_RATIO)))

\* C23: whatever the OCR returns, final_crop_bottom never exceeds
\* min(page height, candidate bottom + 0.45 x original candidate height).
C23_FinalCropBottomWithinGrowthCeiling ==
    QLeq(Q(final_crop_bbox[4]), GrowthCeiling)

\* the loop ended on the last whole pixel below a ceiling that is not a
\* whole number, after at least two expansions
C23_Witness ==
    /\ parse_pc = "done"
    /\ expand_attempts >= 2
    /\ GrowthCeiling[2] # 1
    /\ QLess(Q(parse_input.y1 + TABLE_BOTTOM_EXPAND_STEP_PX), GrowthCeiling)
    /\ final_crop_bbox[4] = QFloor(GrowthCeiling)

\* the last data row of the last crop is within the near-edge threshold of
\* the crop's bottom
LastRowNearEdge == near_bottom_edge(final_crop_bbox, rows_result)

\* C24 (as stated): the streak ends the loop only when it exceeds
\* TABLE_BOTTOM_EXPAND_NO_GROWTH_STREAK and the last data row is not near
\* the edge; with data near the edge the loop ends only at the attempt
\* limit, the growth limit or the page bottom.
C24_StreakStopsOnlyAboveLimitAwayFromEdge ==
    /\ stop_reason = "no_growth_streak"
           => /\ no_growth_streak > TABLE_BOTTOM_EXPAND_NO_GROWTH_STREAK
              /\ ~LastRowNearEdge
    /\ (parse_pc = "done" /\ ocr_calls > 0 /\ rows_result.saw_data /\ LastRowNearEdge)
           => stop_reason \in {"attempt_limit", "growth_limit", "page_bottom"}

\* C24 (amended): the streak ends the loop only when it has reached
\* TABLE_BOTTOM_EXPAND_NO_GROWTH_STREAK (two expansions in a row without a
\* new row) and the last data row is not near the edge; with data near the
\* edge the loop ends only at a footer row, the attempt limit, the growth
\* limit or the page bottom.
C24_StreakStopsOnlyAtLimitAwayFromEdge ==
    /\ stop_reason = "no_growth_streak"
           => /\ no_growth_streak >= TABLE_BOTTOM_EXPAND_NO_GROWTH_STREAK
              /\ ~LastRowNearEdge
    /\ (parse_pc = "done" /\ ocr_calls > 0 /\ rows_result.saw_data /\ LastRowNearEdge)
           => stop_reason \in {"footer", "attempt_limit", "growth_limit", "page_bottom"}

\* the loop went on to the attempt limit with the last row near the edge
\* and a streak far above the limit, well above the growth limit and the
\* page bottom
C24_Witness ==
    /\ parse_pc = "done"
    /\ stop_reason = "attempt_limit"
    /\ LastRowNearEdge
    /\ no_growth_streak > TABLE_BOTTOM_EXPAND_NO_GROWTH_STREAK + 1
    /\ QLess(Q(final_crop_bbox[4]), max_bottom)
    /\ final_crop_bbox[4] < parse_input.page_h

\* C30: every OCR call after the first is made on a crop whose bottom edge
\* is strictly below that of the call before it.
C30_EveryLaterOcrCallOnALowerCrop ==
    [][(ocr_calls' = ocr_calls + 1 /\ ocr_calls >= 1)
           => final_crop_bbox'[4] > final_crop_bbox[4]]_vars

(***************************************************************************)
(* extract_e055_pdf / extract_raster_pdf: the page loop of one PDF         *)
(***************************************************************************)
MaxPages == 2

Extractors == {"e055", "raster"}

\* what run_pdftoppm and the page extraction of one target page can do
PageOutcomes == {"ok", "pdftoppm_nonzero_exit", "png_missing", "page_extraction_error"}

\* rows one page can contribute
PageRowCounts == {0, 1}

\* resolve_target_pages: raises marks the ValueError
resolve_target_pages(total_pages, page) ==
    IF total_pages < 1 THEN [raises |-> TRUE, pages |-> <<>>]
    ELSE IF page <= 0 THEN [raises |-> FALSE, pages |-> [k \in 1..total_pages |-> k]]
    ELSE IF page > total_pages THEN [raises |-> TRUE, pages |-> <<>>]
    ELSE [raises |-> FALSE, pages |-> <<page>>]

PdftoppmNeverRaises(outcome) == FALSE

\* run_pdftoppm raises RuntimeError on a non-zero exit and FileNotFoundError
\* when no PNG was produced
PdftoppmRaises(outcome) == outcome \in {"pdftoppm_nonzero_exit", "png_missing"}

PdftoppmException(outcome) ==
    IF outcome = "pdftoppm_nonzero_exit" THEN "RuntimeError" ELSE "FileNotFoundError"

InitExtract ==
    /\ extract_input \in [extractor : Extractors, pdf_exists : BOOLEAN,
                          total_pages : 0..MaxPages, page : 0..(MaxPages + 1)]
    /\ extract_pc = "start"
    /\ target_pages = <<>>
    /\ pages_done = <<>>
    /\ rows_by_page = <<>>
    /\ csv_written = FALSE
    /\ raised = ""
    /\ rasterize_failed_page = 0
    /\ IdleNotExtract

\* the existence check and resolve_target_pages, before the loop
StartExtraction ==
    /\ extract_pc = "start"
    /\ IF ~extract_input.pdf_exists
       THEN /\ extract_pc' = "raised"
            /\ raised' = "FileNotFoundError"
            /\ UNCHANGED target_pages
       ELSE LET resolved == resolve_target_pages(extract_input.total_pages, extract_input.page)
            IN  IF resolved.raises
                THEN /\ extract_pc' = "raised"
                     /\ raised' = "ValueError"
                     /\ UNCHANGED target_pages
                ELSE /\ extract_pc' = "pages"
                     /\ target_pages' = resolved.pages
                     /\ UNCHANGED raised
    /\ UNCHANGED <<extract_input, pages_done, rows_by_page, csv_written,
                   rasterize_failed_page, notExtractVars>>

\* one iteration of `for target_page in target_pages`: rasterize, open the
\* image, extract the page's rows; nothing in the loop catches an exception
ProcessPage ==
    /\ extract_pc = "pages"
    /\ Len(pages_done) < Len(target_pages)
    /\ \E outcome \in PageOutcomes, n \in PageRowCounts :
        LET target_page == target_pages[Len(pages_done) + 1]
        IN  /\ rasterize_failed_page' =
                   IF outcome \in {"pdftoppm_nonzero_exit", "png_missing"}
                   THEN target_page ELSE rasterize_failed_page
            /\ IF PdftoppmRaises(outcome)
               THEN /\ extract_pc' = "raised"
                    /\ raised' = PdftoppmException(outcome)
                    /\ UNCHANGED <<pages_done, rows_by_page>>
               ELSE IF outcome = "page_extraction_error"
               THEN /\ extract_pc' = "raised"
                    /\ raised' = "Exception"
                    /\ UNCHANGED <<pages_done, rows_by_page>>
               ELSE /\ pages_done' = Append(pages_done, target_page)
                    /\ rows_by_page' = Append(rows_by_page, n)
                    /\ UNCHANGED <<extract_pc, raised>>
    /\ UNCHANGED <<extract_input, target_pages, csv_written, notExtractVars>>

\* after the loop: the rows are assembled and write_csv is called
WriteCsv ==
    /\ extract_pc = "pages"
    /\ Len(pages_done) = Len(target_pages)
    /\ csv_written' = TRUE
    /\ extract_pc' = "done"
    /\ UNCHANGED <<extract_input, target_pages, pages_done, rows_by_page, raised,
                   rasterize_failed_page, notExtractVars>>

NextExtract == StartExtraction \/ ProcessPage \/ WriteCsv

SpecExtract == InitExtract /\ [][NextExtract]_vars

\* C11: a missing PDF, a page beyond the page count, or a page whose
\* rasterization failed makes the function raise at that point: no page after
\* it is processed and the CSV is never written.
C11_InputAndRasterizeFailuresRaiseAtOnce ==
    LET bad_input == \/ ~extract_input.pdf_exists
                     \/ extract_input.page > extract_input.total_pages
    IN  /\ (extract_pc # "start" /\ bad_input)
               => extract_pc = "raised" /\ pages_done = <<>> /\ ~csv_written
        /\ rasterize_failed_page # 0
               => /\ extract_pc = "raised"
                  /\ ~csv_written
                  /\ \A k \in DOMAIN pages_done : pages_done[k] < rasterize_failed_page

\* rasterization failed on the second target page after the first was done
C11_Witness ==
    /\ extract_pc = "raised"
    /\ rasterize_failed_page = 2
    /\ pages_done = <<1>>
    /\ ~csv_written

\* C26: in a run over several target pages, when the processing of one page
\* fails the other target pages are still processed and the CSV with their
\* rows is written: the run ends with every target page but the failed one
\* done.
C26_PageFailureLeavesOtherPagesProcessed ==
    (extract_pc = "raised" /\ Len(target_pages) >= 2)
        => /\ csv_written
           /\ Len(pages_done) >= Len(target_pages) - 1

(***************************************************************************)
(* _collect_image_vertical_lines: one call and its latency budget          *)
(***************************************************************************)
\* elapsed milliseconds since the line assist started, around the budgets
ElapsedAtEntry == {0, 100, 298, 299, 300, 450}

ProcessingMs == {5, 400}

TimeBudgets == {1, LINE_ASSIST_DEFAULT_LATENCY_BUDGET_MS}

ImageSectionBounds == {[x_min |-> 0, x_max |-> 400], [x_min |-> 500, x_max |-> PageWidth]}

InitImageLines ==
    /\ image_call \in [drawn : DrawnImageLines, bounds : ImageSectionBounds,
                       time_budget_ms : TimeBudgets, cv2_available : BOOLEAN,
                       elapsed_ms_at_entry : ElapsedAtEntry, processing_ms : ProcessingMs,
                       processing_raises : BOOLEAN]
    /\ image_pc = "call"
    /\ image_result = <<>>
    /\ IdleNotImageLines

CallCollectImageLines ==
    /\ image_pc = "call"
    /\ image_result' = _collect_image_vertical_lines(
                           image_call.drawn, image_call.bounds, image_call.time_budget_ms,
                           [cv2_available |-> image_call.cv2_available,
                            elapsed_ms_at_entry |-> image_call.elapsed_ms_at_entry,
                            elapsed_ms_at_exit |-> image_call.elapsed_ms_at_entry
                                                       + image_call.processing_ms,
                            processing_raises |-> image_call.processing_raises])
    /\ image_pc' = "returned"
    /\ UNCHANGED <<image_call, notImageLinesVars>>

NextImageLines == CallCollectImageLines

SpecImageLines == InitImageLines /\ [][NextImageLines]_vars

\* the budget is used up when the function is entered
BudgetUsedUpAtEntry ==
    image_call.elapsed_ms_at_entry >= image_call.time_budget_ms

\* C12 as stated: entered with the budget used up, the function returns no
\* lines, records the timeout in its diagnostics, does no image processing
\* and raises nothing.
C12_ExhaustedBudgetReturnsNoLinesWithTimeout ==
    (image_pc = "returned" /\ BudgetUsedUpAtEntry)
        => /\ image_result.lines = <<>>
           /\ image_result.diagnostics.timed_out
           /\ ~image_result.processed
           /\ ~image_result.raised

\* C12 amended: entered with the budget used up, the function returns no
\* lines, does no image processing and raises nothing; the timeout is recorded
\* when cv2 and numpy are available, and when they are not the diagnostics
\* carry the error opencv_or_numpy_unavailable and no timeout.
C12_ExhaustedBudgetReturnsNoLinesTimeoutIfOpenCv ==
    (image_pc = "returned" /\ BudgetUsedUpAtEntry)
        => /\ image_result.lines = <<>>
           /\ ~image_result.processed
           /\ ~image_result.raised
           /\ image_call.cv2_available
                  => /\ image_result.diagnostics.timed_out
                     /\ image_result.diagnostics.error = ""
           /\ ~image_call.cv2_available
                  => /\ ~image_result.diagnostics.timed_out
                     /\ image_result.diagnostics.error = "opencv_or_numpy_unavailable"

\* the budget was used up at entry of a call that would have found a line
\* and whose image processing would have raised
C12_Witness ==
    /\ image_pc = "returned"
    /\ BudgetUsedUpAtEntry
    /\ image_call.cv2_available
    /\ image_call.processing_raises
    /\ image_call.drawn # <<>>
    /\ image_result.diagnostics.timed_out
    /\ image_result.lines = <<>>

(***************************************************************************)
(* handle_customer_run: panel->raster, equipment->vector, then unified     *)
(***************************************************************************)
\* what a job does when it is run: it returns, raises an Exception, or
\* raises a BaseException that `except Exception` does not catch
JobOutcomes == {"ok", "exception", "base_exception"}

ExtractionStages == {"panel->raster", "equipment->vector"}

NoResponse == [status |-> "", stage |-> ""]

ErrorResponse(stage) == [status |-> "error", stage |-> stage]

SuccessResponse == [status |-> "success", stage |-> ""]

CaughtNever(outcome) == FALSE

\* `except Exception as exc` around each job
Caught(outcome) == outcome = "exception"

InitCustomerRun ==
    /\ run_input \in [panel_is_pdf : BOOLEAN, equipment_is_pdf : BOOLEAN,
                      parallel_extract : BOOLEAN, raster_outcome : JobOutcomes,
                      vector_outcome : JobOutcomes, unified_outcome : JobOutcomes]
    /\ run_pc = "validate"
    /\ raster_job = "not_started"
    /\ vector_job = "not_started"
    /\ unified_job = "not_started"
    /\ response = NoResponse
    /\ IdleNotCustomerRun

\* the two _is_pdf_upload checks
ValidateUploads ==
    /\ run_pc = "validate"
    /\ IF ~run_input.panel_is_pdf
       THEN response' = ErrorResponse("panel->raster") /\ run_pc' = "responded"
       ELSE IF ~run_input.equipment_is_pdf
       THEN response' = ErrorResponse("equipment->vector") /\ run_pc' = "responded"
       ELSE response' = response /\ run_pc' = "raster"
    /\ UNCHANGED <<run_input, raster_job, vector_job, unified_job, notCustomerRunVars>>

\* the first try block is entered: _run_raster_job is called
StartRasterJob ==
    /\ run_pc = "raster"
    /\ raster_job' = "running"
    /\ run_pc' = "raster_running"
    /\ UNCHANGED <<run_input, vector_job, unified_job, response, notCustomerRunVars>>

\* _run_raster_job returns or raises
FinishRasterJob ==
    /\ run_pc = "raster_running"
    /\ IF run_input.raster_outcome = "ok"
       THEN raster_job' = "succeeded" /\ run_pc' = "vector" /\ response' = response
       ELSE /\ raster_job' = "failed"
            /\ IF Caught(run_input.raster_outcome)
               THEN response' = ErrorResponse("panel->raster") /\ run_pc' = "responded"
               ELSE response' = response /\ run_pc' = "propagated"
    /\ UNCHANGED <<run_input, vector_job, unified_job, notCustomerRunVars>>

\* the second try block is entered: _run_vector_job is called
StartVectorJob ==
    /\ run_pc = "vector"
    /\ vector_job' = "running"
    /\ run_pc' = "vector_running"
    /\ UNCHANGED <<run_input, raster_job, unified_job, response, notCustomerRunVars>>

\* _run_vector_job returns or raises
FinishVectorJob ==
    /\ run_pc = "vector_running"
    /\ IF run_input.vector_outcome = "ok"
       THEN vector_job' = "succeeded" /\ run_pc' = "unified" /\ response' = response
       ELSE /\ vector_job' = "failed"
            /\ IF Caught(run_input.vector_outcome)
               THEN response' = ErrorResponse("equipment->vector") /\ run_pc' = "responded"
               ELSE response' = response /\ run_pc' = "propagated"
    /\ UNCHANGED <<run_input, raster_job, unified_job, notCustomerRunVars>>

\* the third try block is entered: _run_unified_job is called
StartUnifiedJob ==
    /\ run_pc = "unified"
    /\ unified_job' = "running"
    /\ run_pc' = "unified_running"
    /\ UNCHANGED <<run_input, raster_job, vector_job, response, notCustomerRunVars>>

\* _run_unified_job returns (the table is rendered) or raises
FinishUnifiedJob ==
    /\ run_pc = "unified_running"
    /\ IF run_input.unified_outcome = "ok"
       THEN unified_job' = "succeeded" /\ response' = SuccessResponse /\ run_pc' = "responded"
       ELSE /\ unified_job' = "failed"
            /\ IF Caught(run_input.unified_outcome)
               THEN response' = ErrorResponse("unified") /\ run_pc' = "responded"
               ELSE response' = response /\ run_pc' = "propagated"
    /\ UNCHANGED <<run_input, raster_job, vector_job, notCustomerRunVars>>

NextCustomerRun ==
    \/ ValidateUploads
    \/ StartRasterJob
    \/ FinishRasterJob
    \/ StartVectorJob
    \/ FinishVectorJob
    \/ StartUnifiedJob
    \/ FinishUnifiedJob

SpecCustomerRun == InitCustomerRun /\ [][NextCustomerRun]_vars

\* the handler itself always takes its next step; whether and when a job
\* returns is up to the job
SpecCustomerRunHandlerFair ==
    /\ InitCustomerRun
    /\ [][NextCustomerRun]_vars
    /\ WF_vars(ValidateUploads)
    /\ WF_vars(StartRasterJob)
    /\ WF_vars(StartVectorJob)
    /\ WF_vars(StartUnifiedJob)

\* C13: with parallel extraction enabled, the panel->raster and the
\* equipment->vector extraction run concurrently: once one of them is
\* running the other one starts, whether or not the first one ever finishes.
C13_ParallelExtractionsStartWithoutWaiting ==
    /\ (run_input.parallel_extract /\ raster_job = "running") ~> (vector_job # "not_started")
    /\ (run_input.parallel_extract /\ vector_job = "running") ~> (raster_job # "not_started")

MaxTokens == 3

ANCHOR_RECOMBINE_MAX_GAP == 20

ANCHOR_BAND_HEIGHT == 120

TitleY == 100

CharWidth == 10

CapitalLetters == {"D", "L", "H"}

Digits == {"1", "2", "3"}

TokenStripChars == {"[", "]", "(", ")", "{", "}", "<", ">", "|", ",", ".", ";", ":", "'"}

\* str.upper() on the characters of the vocabulary
UpperChar(c) ==
    CASE c = "d" -> "D"
      [] c = "l" -> "L"
      [] OTHER -> c

RECURSIVE StripTokenLeft(_)
StripTokenLeft(t) ==
    IF t # <<>> /\ Head(t) \in TokenStripChars THEN StripTokenLeft(Tail(t)) ELSE t

RECURSIVE StripTokenRight(_)
StripTokenRight(t) ==
    IF t # <<>> /\ t[Len(t)] \in TokenStripChars
    THEN StripTokenRight(SubSeq(t, 1, Len(t) - 1))
    ELSE t

\* _normalize_token: NFKC, upper case, brackets and punctuation stripped at
\* both ends
_normalize_token(value) ==
    StripTokenLeft(StripTokenRight([k \in DOMAIN value |-> UpperChar(NormalizeChar(value[k]))]))

\* re.fullmatch(r"[A-Z]", token)
IsCapitalLetter(token) == Len(token) = 1 /\ token[1] \in CapitalLetters

\* re.fullmatch(r"\d{1,2}", token)
IsOneOrTwoDigits(token) ==
    /\ Len(token) \in {1, 2}
    /\ \A k \in DOMAIN token : token[k] \in Digits

\* EQUIPMENT_CODE_PATTERN: a capital letter and one or two digits
_is_equipment_code(value) ==
    LET token == _normalize_token(value)
    IN  /\ Len(token) \in {2, 3}
        /\ token[1] \in CapitalLetters
        /\ IsOneOrTwoDigits(Tail(token))

_is_symbol_like(value) == IsCapitalLetter(_normalize_token(value))

GapAllowsRecombinationAlways(gap) == TRUE

\* gap <= 20.0
GapAllowsRecombination(gap) == gap <= ANCHOR_RECOMBINE_MAX_GAP

\* sorted(cluster.words, key=lambda item: item.cx)
AnchorWordsByCx(ws) ==
    LET order == SortIdx(DOMAIN ws, [i \in DOMAIN ws |-> <<ws[i].cx2>>])
    IN  [k \in DOMAIN ws |-> ws[order[k]]]

\* anchors.sort(key=lambda item: item.x)
AnchorsByX(as) ==
    LET order == SortIdx(DOMAIN as, [i \in DOMAIN as |-> <<as[i].x>>])
    IN  [k \in DOMAIN as |-> as[order[k]]]

\* the while loop of _detect_anchors over the sorted words of one cluster;
\* acc carries anchors, seen and the positions where two tokens were joined
RECURSIVE ScanAnchorWords(_, _, _)
ScanAnchorWords(ws, idx, acc) ==
    IF idx > Len(ws) THEN acc
    ELSE LET token == _normalize_token(ws[idx].text)
             x == ws[idx].x0
             join == /\ IsCapitalLetter(token)
                     /\ idx + 1 <= Len(ws)
                     /\ IsOneOrTwoDigits(_normalize_token(ws[idx + 1].text))
                     /\ GapAllowsRecombination(ws[idx + 1].x0 - ws[idx].x2)
             raw == IF join THEN token \o _normalize_token(ws[idx + 1].text) ELSE token
             last == IF join THEN idx + 1 ELSE idx
             joined == IF join THEN acc.joined \cup {idx} ELSE acc.joined
         IN  IF ~_is_equipment_code(raw) /\ ~_is_symbol_like(raw)
             THEN ScanAnchorWords(ws, last + 1, [acc EXCEPT !.joined = joined])
             ELSE LET equipment == IF _is_equipment_code(raw) THEN raw ELSE <<>>
                      key == <<raw, x>>
                  IN  ScanAnchorWords(ws, last + 1,
                          [anchors |-> IF key \in acc.seen THEN acc.anchors
                                       ELSE Append(acc.anchors,
                                                   [x |-> x, raw |-> raw, equipment |-> equipment]),
                           seen |-> acc.seen \cup {key},
                           joined |-> joined])

InAnchorBand(row_y, title_y) == ~(row_y < title_y \/ row_y > title_y + ANCHOR_BAND_HEIGHT)

\* _detect_anchors on one cluster: the scan, then anchors.sort by x
_detect_anchors(cluster, title_y) ==
    IF ~InAnchorBand(cluster.row_y, title_y)
    THEN [anchors |-> <<>>, joined |-> {}]
    ELSE LET scanned == ScanAnchorWords(AnchorWordsByCx(cluster.words), 1,
                                        [anchors |-> <<>>, seen |-> {}, joined |-> {}])
         IN  [anchors |-> AnchorsByX(scanned.anchors),
              joined |-> scanned.joined]

AnchorTexts ==
    {<<"d">>, <<"1">>, <<"U+FF08", "1", "2", "U+FF09">>, <<"1", "2", "3">>, <<"D", "1">>}

AnchorX0s == {0, 30, 31}

AnchorRowYs == {TitleY, TitleY + ANCHOR_BAND_HEIGHT + 1}

\* a word box: its text, left and right edge, and twice its centre
AnchorWord(text, x0) ==
    [text |-> text, x0 |-> x0, x2 |-> x0 + CharWidth * Len(text),
     cx2 |-> 2 * x0 + CharWidth * Len(text)]

AnchorWords == {AnchorWord(text, x0) : text \in AnchorTexts, x0 \in AnchorX0s}

AnchorWordLists == UNION {[1..n -> AnchorWords] : n \in 0..MaxTokens}

InitAnchors ==
    /\ \E ws \in AnchorWordLists, y \in AnchorRowYs : anchor_cluster = [row_y |-> y, words |-> ws]
    /\ anchor_pc = "call"
    /\ anchors = <<>>
    /\ recombined = {}
    /\ IdleNotAnchors

CallDetectAnchors ==
    /\ anchor_pc = "call"
    /\ LET result == _detect_anchors(anchor_cluster, TitleY)
       IN  /\ anchors' = result.anchors
           /\ recombined' = result.joined
    /\ anchor_pc' = "returned"
    /\ UNCHANGED <<anchor_cluster, notAnchorsVars>>

NextAnchors == CallDetectAnchors

SpecAnchors == InitAnchors /\ [][NextAnchors]_vars

\* the words of the cluster in x order
AnchorSorted == AnchorWordsByCx(anchor_cluster.words)

\* position i holds a single capital letter and position i + 1 a token of
\* one or two digits
LetterThenDigits(i) ==
    /\ i + 1 <= Len(AnchorSorted)
    /\ IsCapitalLetter(_normalize_token(AnchorSorted[i].text))
    /\ IsOneOrTwoDigits(_normalize_token(AnchorSorted[i + 1].text))

AnchorGap(i) == AnchorSorted[i + 1].x0 - AnchorSorted[i].x2

\* C17: in a row of the anchor band, a single capital letter directly
\* followed in x order by a token of one or two digits is joined into one
\* symbol exactly when the gap between the letter's right edge and the
\* digits' left edge is at most 20 px; the joined symbol is an anchor at the
\* letter's x, and with a larger gap the letter stays an anchor of its own.
C17_LetterAndDigitsJoinedIffGapAtMost20 ==
    (anchor_pc = "returned" /\ InAnchorBand(anchor_cluster.row_y, TitleY))
        => \A i \in DOMAIN AnchorSorted :
               LetterThenDigits(i) =>
                   LET letter == _normalize_token(AnchorSorted[i].text)
                       digits == _normalize_token(AnchorSorted[i + 1].text)
                   IN  /\ i \in recombined <=> AnchorGap(i) <= ANCHOR_RECOMBINE_MAX_GAP
                       /\ i \in recombined =>
                              \E k \in DOMAIN anchors :
                                  /\ anchors[k].raw = letter \o digits
                                  /\ anchors[k].equipment = letter \o digits
                                  /\ anchors[k].x = AnchorSorted[i].x0
                       /\ i \notin recombined =>
                              \E k \in DOMAIN anchors :
                                  /\ anchors[k].raw = letter
                                  /\ anchors[k].equipment = <<>>
                                  /\ anchors[k].x = AnchorSorted[i].x0

\* a letter was joined with the two digits that start 20 px to its right
C17_Witness ==
    /\ anchor_pc = "returned"
    /\ Len(AnchorSorted) = 3
    /\ LetterThenDigits(1)
    /\ AnchorGap(1) = ANCHOR_RECOMBINE_MAX_GAP
    /\ 1 \in recombined
    /\ Len(anchors) = 1
    /\ anchors[1].raw = <<"D", "1", "2">>

(***************************************************************************)
(* e055 _propagate_equipment_in_section: one source row-group and the      *)
(* continuation row-group below it                                         *)
(***************************************************************************)
MaxSources == 3

MaxTargets == 3

SourceRowY == 100

TargetRowY == 120

TargetRowXStep == 10

SourceSymbols == <<"A1", "A2", "A3", "A4", "A5">>

\* x positions of the symbol-carrying records, left to right
SourceXs == <<100, 300, 500, 700, 900>>

\* x positions of the model tokens of the continuation records
TargetModelXs == {100, 320, 340, 500}

\* the k-th record of the source row-group
SourceRecord(k) ==
    [row_y |-> SourceRowY, row_x |-> SourceXs[k], model_x |-> SourceXs[k],
     block_index |-> k - 1, equipment |-> SourceSymbols[k], equivalent_model |-> "M"]

\* the k-th record of the continuation row-group of a section with n sources
TargetRecord(n, k, model_x) ==
    [row_y |-> TargetRowY, row_x |-> TargetRowXStep * k, model_x |-> model_x,
     block_index |-> n + k - 1, equipment |-> "", equivalent_model |-> "M"]

RowGroupSections ==
    {[k \in 1..n |-> SourceRecord(k)] \o [k \in 1..Len(xs) |-> TargetRecord(n, k, xs[k])] :
         n \in 1..MaxSources,
         xs \in UNION {[1..c -> TargetModelXs] : c \in 1..MaxTargets}}

InitRowGroups ==
    /\ group_before \in RowGroupSections
    /\ group_after = <<>>
    /\ group_pc = "call"
    /\ IdleNotRowGroups

CallPropagateRowGroups ==
    /\ group_pc = "call"
    /\ group_after' = _propagate_equipment_in_section(group_before)
    /\ group_pc' = "returned"
    /\ UNCHANGED <<group_before, notRowGroupsVars>>

NextRowGroups == CallPropagateRowGroups

SpecRowGroups == InitRowGroups /\ [][NextRowGroups]_vars

GroupSources == {i \in DOMAIN group_before : group_before[i].row_y = SourceRowY}

GroupTargets == {i \in DOMAIN group_before : group_before[i].row_y = TargetRowY}

\* the continuation records that took their symbol from source record s
UsedBy(s) == {i \in GroupTargets : group_after[i].equipment = group_before[s].equipment}

DifferentCounts == Cardinality(GroupSources) # Cardinality(GroupTargets)

\* C20 as stated: with different record counts in the two row-groups, no
\* source record is used for more than one record of the continuation
\* row-group.
C20_NoSourceUsedTwice ==
    (group_pc = "returned" /\ DifferentCounts)
        => \A s \in GroupSources : Cardinality(UsedBy(s)) <= 1

\* C20 amended: with different record counts, a source record is used a
\* second time only after every source record has been used: with fewer
\* continuation records than sources no source is used twice, and with more
\* continuation records than sources every source is used and some source is
\* used again.
C20_NoSourceUsedTwiceWhileUnusedRemain ==
    (group_pc = "returned" /\ DifferentCounts)
        => /\ \A i \in GroupTargets : \E s \in GroupSources : i \in UsedBy(s)
           /\ Cardinality(GroupTargets) < Cardinality(GroupSources)
                  => \A s \in GroupSources : Cardinality(UsedBy(s)) <= 1
           /\ Cardinality(GroupTargets) > Cardinality(GroupSources)
                  => /\ \A s \in GroupSources : Cardinality(UsedBy(s)) >= 1
                     /\ \E s \in GroupSources : Cardinality(UsedBy(s)) >= 2

\* two continuation records whose model tokens are both nearest to the
\* second of three sources took the second and the third
C20_Witness ==
    /\ group_pc = "returned"
    /\ Cardinality(GroupSources) = 3
    /\ Cardinality(GroupTargets) = 2
    /\ group_before[4].model_x = 320
    /\ group_before[5].model_x = 340
    /\ group_after[4].equipment = "A2"
    /\ group_after[5].equipment = "A3"

\* ---------------------------------------------------------------------------
\* detect_table_candidates_from_page_words (raster extractor): one candidate
\* box per header anchor, close candidates merged, and each box clipped at
\* the top of the next candidate below it in the same column space.
\* Coordinates are whole pixels.  A candidate is [bbox, header_y] with
\* bbox = <<x0, y0, x1, y1>>; header_text and categories are carried by the
\* code but never read by the geometry and are left out.
\* ---------------------------------------------------------------------------

MaxAnchors == 3

TABLE_HEADER_X_MARGIN == 60

TABLE_HEADER_RIGHT_MARGIN == 360

TABLE_HEADER_TOP_MARGIN == 24

TABLE_MAX_SCAN_HEIGHT == 360

TABLE_SCAN_BOTTOM_TOLERANCE == 24

TABLE_MIN_WIDTH == 140

TABLE_MIN_HEIGHT == 45

\* TABLE_MERGE_IOU = 0.55
TABLE_MERGE_IOU == <<55, 100>>

TABLE_NEARBY_HEADER_Y == 14

TABLE_NEARBY_HEADER_X == 45

TABLE_HEADER_CLUSTER_X_GAP == 180

\* frame_size = (width, height) of the rendered page
FrameSize == <<900, 2000>>

_bbox_intersection(a, b) ==
    LET w == Max2(0, Min2(a[3], b[3]) - Max2(a[1], b[1]))
        h == Max2(0, Min2(a[4], b[4]) - Max2(a[2], b[2]))
    IN  w * h

_bbox_area(b) == Max2(0, b[3] - b[1]) * Max2(0, b[4] - b[2])

_bbox_iou(a, b) ==
    LET inter == _bbox_intersection(a, b)
        union == _bbox_area(a) + _bbox_area(b) - inter
    IN  IF inter <= 0 THEN Q(0)
        ELSE IF union <= 0 THEN Q(0)
        ELSE QNorm(inter, union)

_bbox_union(a, b) ==
    <<Min2(a[1], b[1]), Min2(a[2], b[2]), Max2(a[3], b[3]), Max2(a[4], b[4])>>

_x_overlap_ratio(a, b) ==
    LET w == Max2(0, Min2(a[3], b[3]) - Max2(a[1], b[1]))
        base == Max2(1, Min2(a[3] - a[1], b[3] - b[1]))
    IN  QNorm(w, base)

\* the words _infer_candidate_bbox scans below and beside the header
NearbyWords(x_lo, x_hi, y0, scan_bottom, ws) ==
    {w \in ws :
        /\ x_lo - 20 <= w.cx /\ w.cx <= x_hi + 20
        /\ y0 - 10 <= w.cy
        /\ \/ w.cy <= scan_bottom
           \/ (w.bbox[2] <= scan_bottom /\ scan_bottom <= w.bbox[4])}

_infer_candidate_bbox(anchor, ws, frame_size) ==
    LET frame_w == frame_size[1]
        frame_h == frame_size[2]
        x0 == anchor.bbox[1]
        y0 == anchor.bbox[2]
        x1 == anchor.bbox[3]
        y1 == anchor.bbox[4]
        box_left == Max2(0, x0 - TABLE_HEADER_X_MARGIN)
        box_right == Min2(frame_w, x1 + TABLE_HEADER_RIGHT_MARGIN)
        box_top == Max2(0, y0 - TABLE_HEADER_TOP_MARGIN)
        scan_max == Min2(frame_h, y1 + TABLE_MAX_SCAN_HEIGHT)
        scan_bottom == Min2(frame_h, scan_max + TABLE_SCAN_BOTTOM_TOLERANCE)
        nearby == NearbyWords(box_left, box_right, y0, scan_bottom, ws)
        left_out == IF nearby = {} THEN box_left
                 ELSE Max2(0, Min2(box_left, MinOf({w.bbox[1] : w \in nearby}) - 12))
        right_out == IF nearby = {} THEN box_right
                  ELSE Min2(frame_w, Max2(box_right, MaxOf({w.bbox[3] : w \in nearby}) + 12))
        bottom == IF nearby = {} THEN Min2(frame_h, y1 + 220)
                  ELSE Min2(frame_h, Max2(MaxOf({w.bbox[4] : w \in nearby}) + 20, y1 + 80))
    IN  <<left_out, box_top, right_out, Max2(bottom, y1 + TABLE_MIN_HEIGHT)>>

\* sorted(candidates, key=lambda c: (c.header_y, c.bbox[0]))
CandidatesByHeader(cs) ==
    LET order == SortIdx(DOMAIN cs, [i \in DOMAIN cs |-> <<cs[i].header_y, cs[i].bbox[1]>>])
    IN  [k \in DOMAIN cs |-> cs[order[k]]]

\* the loop of _merge_close_candidates over the sorted candidates
RECURSIVE MergeInto(_, _)
MergeInto(merged, rest) ==
    IF rest = <<>> THEN merged
    ELSE IF merged = <<>> THEN MergeInto(<<Head(rest)>>, Tail(rest))
    ELSE LET candidate == Head(rest)
             last == merged[Len(merged)]
             near_header ==
                 /\ Abs(candidate.header_y - last.header_y) <= TABLE_NEARBY_HEADER_Y
                 /\ Abs(candidate.bbox[1] - last.bbox[1]) <= TABLE_NEARBY_HEADER_X
             overlap == QLeq(TABLE_MERGE_IOU, _bbox_iou(candidate.bbox, last.bbox))
         IN  IF near_header \/ overlap
             THEN MergeInto([merged EXCEPT ![Len(merged)] =
                                [bbox |-> _bbox_union(candidate.bbox, last.bbox),
                                 header_y |-> Min2(candidate.header_y, last.header_y)]],
                            Tail(rest))
             ELSE MergeInto(Append(merged, candidate), Tail(rest))

_merge_close_candidates(cs) == MergeInto(<<>>, CandidatesByHeader(cs))

\* the inner loop over candidates[idx + 1:]: the lowest top among the later
\* candidates whose header is below and which share enough of the x range
RECURSIVE NextTop(_, _, _, _)
NextTop(cs, base, j, next_top) ==
    IF j > Len(cs) THEN next_top
    ELSE LET later == cs[j]
         IN  IF later.header_y <= base.header_y THEN NextTop(cs, base, j + 1, next_top)
             ELSE IF QLess(_x_overlap_ratio(base.bbox, later.bbox), <<2, 10>>)
                  THEN NextTop(cs, base, j + 1, next_top)
             ELSE NextTop(cs, base, j + 1, Min2(next_top, later.bbox[2]))

NeedsClipNever(next_top, by1) == FALSE

\* if next_top < by1
NeedsClip(next_top, by1) == next_top < by1

\* the clipping loop: candidates[idx] is replaced in place
RECURSIVE ClipCandidates(_, _)
ClipCandidates(cs, idx) ==
    IF idx > Len(cs) THEN cs
    ELSE LET base == cs[idx]
             by0 == base.bbox[2]
             by1 == base.bbox[4]
             next_top == NextTop(cs, base, idx + 1, by1)
             clipped == <<base.bbox[1], by0, base.bbox[3],
                          Max2(by0 + TABLE_MIN_HEIGHT, next_top - 6)>>
         IN  IF NeedsClip(next_top, by1)
             THEN ClipCandidates([cs EXCEPT ![idx] = [base EXCEPT !.bbox = clipped]], idx + 1)
             ELSE ClipCandidates(cs, idx + 1)

\* the candidates built from the anchors, boxes too small dropped
AnchorCandidates(as, ws, frame_size) ==
    LET all == [i \in DOMAIN as |->
                   [bbox |-> _infer_candidate_bbox(as[i], ws, frame_size),
                    header_y |-> as[i].row_y]]
    IN  SelectIdx(all, {i \in DOMAIN all :
                           /\ ~(all[i].bbox[3] - all[i].bbox[1] < TABLE_MIN_WIDTH)
                           /\ ~(all[i].bbox[4] - all[i].bbox[2] < TABLE_MIN_HEIGHT)})

\* anchors is the result of detect_header_anchors(words)
detect_table_candidates_from_page_words(as, ws, frame_size) ==
    IF as = <<>> THEN <<>>
    ELSE LET cs == AnchorCandidates(as, ws, frame_size)
         IN  IF cs = <<>> THEN <<>>
             ELSE CandidatesByHeader(ClipCandidates(_merge_close_candidates(cs), 1))

\* header rows of the page: one OCR word each, 20 px high
AnchorXRanges == {<<100, 300>>, <<150, 350>>, <<690, 720>>, <<840, 890>>}

AnchorTops == {100, 130, 140, 240, 400}

PageWord(x0, y0, x1, y1) ==
    [cx |-> (x0 + x1) \div 2, cy |-> (y0 + y1) \div 2, bbox |-> <<x0, y0, x1, y1>>]

HeaderWords == {PageWord(x[1], y, x[2], y + 20) : x \in AnchorXRanges, y \in AnchorTops}

\* words of data rows, never part of a header row
DataWords == {PageWord(100, 180, 300, 200), PageWord(100, 500, 300, 520)}

\* two header words of one row are one anchor unless the x gap between them
\* exceeds TABLE_HEADER_CLUSTER_X_GAP
SeparateAnchors(hs) ==
    \A a \in hs : \A b \in hs :
        (a # b /\ a.cy = b.cy /\ a.bbox[1] < b.bbox[1])
            => b.bbox[1] - a.bbox[3] > TABLE_HEADER_CLUSTER_X_GAP

\* detect_header_anchors for a page whose header rows are the words hs:
\* one anchor per word, sorted by (row_y, bbox[0])
AnchorsOf(hs) ==
    LET any == CHOOSE f \in [1..Cardinality(hs) -> hs] : \A h \in hs : \E i \in DOMAIN f : f[i] = h
        order == SortIdx(DOMAIN any, [i \in DOMAIN any |-> <<any[i].cy, any[i].bbox[1]>>])
    IN  [k \in DOMAIN any |-> [row_y |-> any[order[k]].cy, bbox |-> any[order[k]].bbox]]

InitDetect ==
    /\ \E hs \in SUBSET HeaderWords : \E ds \in SUBSET DataWords :
        /\ Cardinality(hs) <= MaxAnchors
        /\ SeparateAnchors(hs)
        /\ header_anchors = AnchorsOf(hs)
        /\ page_words = hs \cup ds
    /\ detect_pc = "call"
    /\ table_candidates = <<>>
    /\ IdleNotDetect

CallDetectTableCandidates ==
    /\ detect_pc = "call"
    /\ table_candidates' =
           detect_table_candidates_from_page_words(header_anchors, page_words, FrameSize)
    /\ detect_pc' = "returned"
    /\ UNCHANGED <<header_anchors, page_words, notDetectVars>>

NextDetect == CallDetectTableCandidates

SpecDetect == InitDetect /\ [][NextDetect]_vars

\* B's header lies below A's and the boxes overlap horizontally with ratio
\* at least 0.2
BelowInSameColumn(a, b) ==
    /\ b.header_y > a.header_y
    /\ QLeq(<<2, 10>>, _x_overlap_ratio(a.bbox, b.bbox))

\* C21 (as stated): in the returned list, every candidate A ends above the
\* top edge of every candidate B whose header is below A's and whose box
\* overlaps A's horizontally with ratio at least 0.2.
C21_BottomAboveNextTop ==
    detect_pc = "returned" =>
        \A i \in DOMAIN table_candidates : \A j \in DOMAIN table_candidates :
            BelowInSameColumn(table_candidates[i], table_candidates[j])
                => table_candidates[i].bbox[4] < table_candidates[j].bbox[2]

\* C21 (amended): every such A ends at or above B's top edge unless A's box
\* is held at the minimum height of 45 px, in which case it may reach past
\* B's top edge.
C21_BottomAboveNextTopUnlessMinHeight ==
    detect_pc = "returned" =>
        \A i \in DOMAIN table_candidates : \A j \in DOMAIN table_candidates :
            BelowInSameColumn(table_candidates[i], table_candidates[j])
                => \/ table_candidates[i].bbox[4] <= table_candidates[j].bbox[2]
                   \/ table_candidates[i].bbox[4]
                          = table_candidates[i].bbox[2] + TABLE_MIN_HEIGHT

\* a box was clipped 6 px above the next candidate's top, and another pair
\* of the same list shows a box held at the minimum height
C21_Witness ==
    /\ detect_pc = "returned"
    /\ \E i \in DOMAIN table_candidates : \E j \in DOMAIN table_candidates :
        /\ BelowInSameColumn(table_candidates[i], table_candidates[j])
        /\ table_candidates[i].bbox[4] = table_candidates[j].bbox[2] - 6
        /\ table_candidates[i].bbox[4] > table_candidates[i].bbox[2] + TABLE_MIN_HEIGHT
    /\ \E i \in DOMAIN table_candidates : \E j \in DOMAIN table_candidates :
        /\ BelowInSameColumn(table_candidates[i], table_candidates[j])
        /\ table_candidates[i].bbox[4] > table_candidates[j].bbox[2]

\* ---------------------------------------------------------------------------
\* _extract_page_candidate_rows (E-055): the row clusters of a page are cut
\* into sections at the header rows.  A word is a sequence of characters
\* (written "U+XXXX" for non-ASCII ones), a cluster is [row_y, words] with
\* the words in x order.  What is done inside a section (block assignment,
\* line assist, propagation) is the section machine above; it rewrites the
\* equipment and block fields of the section's candidates and neither adds
\* nor removes a candidate nor touches section_index or row_y.
\* ---------------------------------------------------------------------------

MaxClusters == 5

\* "相当型番"
ModelHeaderTerm == <<"U+76F8", "U+5F53", "U+578B", "U+756A">>

\* "器具記"
SymbolHeaderTerm == <<"U+5668", "U+5177", "U+8A18">>

\* term in text
HasTerm(text, term) ==
    \E i \in 0..(Len(text) - Len(term)) : SubSeq(text, i + 1, i + Len(term)) = term

RECURSIVE JoinWords(_, _)
JoinWords(ws, sep) ==
    IF ws = <<>> THEN <<>>
    ELSE IF Len(ws) = 1 THEN ws[1]
    ELSE ws[1] \o sep \o JoinWords(Tail(ws), sep)

\* " ".join(...) of the words of the cluster, already in x order
_row_text(cluster) == JoinWords(cluster.words, <<" ">>)

\* the text without its spaces
compact_text(value) == SelectSeq(value, LAMBDA ch : ch # " ")

_is_header_row(value) ==
    /\ HasTerm(compact_text(value), ModelHeaderTerm)
    /\ HasTerm(compact_text(value), SymbolHeaderTerm)

\* the words of the rows of a page
CodeWord == <<"C", "D", "1">>

ModelWord == <<"X", "L", "D", "-", "1">>

RowWordLists ==
    { <<ModelHeaderTerm, SymbolHeaderTerm \o <<"U+53F7">> >>,
      <<SubSeq(ModelHeaderTerm, 1, 2), SubSeq(ModelHeaderTerm, 3, 4), SymbolHeaderTerm>>,
      <<ModelHeaderTerm>>,
      <<CodeWord, ModelWord>>,
      <<<<"U+5099", "U+8003">>>> }

\* _extract_candidates_from_cluster on the rows above: a row that starts
\* with an equipment code followed by a model number gives one candidate,
\* the other rows give none
_extract_candidates_from_cluster(cluster) ==
    IF Len(cluster.words) >= 2 /\ cluster.words[1] = CodeWord
    THEN <<[equipment |-> cluster.words[1], model |-> cluster.words[2]]>>
    ELSE <<>>

\* header_indexes, counted from 1
HeaderIndexes(row_clusters) ==
    SelectSeq([i \in DOMAIN row_clusters |-> i],
              LAMBDA i : _is_header_row(_row_text(row_clusters[i])))

NextHeaderIndexAlwaysEnd(header_indexes, header_pos, cluster_count) == cluster_count + 1

\* next_header_index: the next header, or one past the last cluster
NextHeaderIndex(header_indexes, header_pos, cluster_count) ==
    IF header_pos + 1 <= Len(header_indexes)
    THEN header_indexes[header_pos + 1]
    ELSE cluster_count + 1

\* clusters[header_index + 1:next_header_index]
SectionClusters(row_clusters, header_indexes, header_pos) ==
    SubSeq(row_clusters, header_indexes[header_pos] + 1,
           NextHeaderIndex(header_indexes, header_pos, Len(row_clusters)) - 1)

\* section_candidates of one section; section_index counts from 0
RECURSIVE SectionCandidates(_, _)
SectionCandidates(section_clusters, section_index) ==
    IF section_clusters = <<>> THEN <<>>
    ELSE LET cluster == Head(section_clusters)
             rows == _extract_candidates_from_cluster(cluster)
         IN  [k \in DOMAIN rows |->
                 [section_index |-> section_index, row_y |-> cluster.row_y,
                  equipment |-> rows[k].equipment, model |-> rows[k].model]]
             \o SectionCandidates(Tail(section_clusters), section_index)

RECURSIVE PageCandidatesFrom(_, _, _)
PageCandidatesFrom(row_clusters, header_indexes, header_pos) ==
    IF header_pos > Len(header_indexes) THEN <<>>
    ELSE SectionCandidates(SectionClusters(row_clusters, header_indexes, header_pos), header_pos - 1)
         \o PageCandidatesFrom(row_clusters, header_indexes, header_pos + 1)

InitPage ==
    /\ \E n \in 0..MaxClusters : \E rows \in [1..n -> RowWordLists] :
        page_clusters = [i \in 1..n |-> [row_y |-> 100 * i, words |-> rows[i]]]
    /\ page_pc = "call"
    /\ page_sections = <<>>
    /\ page_candidates = <<>>
    /\ IdleNotPage

ExtractPageCandidateRows ==
    /\ page_pc = "call"
    /\ LET header_indexes == HeaderIndexes(page_clusters)
       IN  /\ page_sections' = [p \in DOMAIN header_indexes |->
                                   SectionClusters(page_clusters, header_indexes, p)]
           /\ page_candidates' = PageCandidatesFrom(page_clusters, header_indexes, 1)
    /\ page_pc' = "returned"
    /\ UNCHANGED <<page_clusters, notPageVars>>

NextPage == ExtractPageCandidateRows

SpecPage == InitPage /\ [][NextPage]_vars

\* the positions of the header rows of the page, from the row texts
HeaderPositions ==
    {i \in DOMAIN page_clusters :
        /\ HasTerm(compact_text(_row_text(page_clusters[i])), ModelHeaderTerm)
        /\ HasTerm(compact_text(_row_text(page_clusters[i])), SymbolHeaderTerm)}

\* the sections that hold the cluster at position i
SectionsHolding(i) ==
    {p \in DOMAIN page_sections :
        \E k \in DOMAIN page_sections[p] : page_sections[p][k] = page_clusters[i]}

\* C22: there is one section per header row; the section of a header holds
\* exactly the clusters strictly between it and the next header (or the end
\* of the list), so a non-header cluster after the first header is in
\* exactly one section, a cluster before it in none, header rows in none,
\* and a page without a header row returns no candidates.
C22_SectionsAreTheRunsBetweenHeaders ==
    page_pc = "returned" =>
        /\ Len(page_sections) = Cardinality(HeaderPositions)
        /\ \A i \in DOMAIN page_clusters :
            LET before == {h \in HeaderPositions : h < i}
            IN  IF i \in HeaderPositions \/ before = {}
                THEN SectionsHolding(i) = {}
                ELSE SectionsHolding(i) = {Cardinality(before)}
        /\ \A p \in DOMAIN page_sections : \A k \in DOMAIN page_sections[p] :
            \E i \in DOMAIN page_clusters : page_sections[p][k] = page_clusters[i]
        /\ \A c \in Range(page_candidates) :
            \E i \in DOMAIN page_clusters :
                /\ page_clusters[i].row_y = c.row_y
                /\ SectionsHolding(i) = {c.section_index + 1}
        /\ HeaderPositions = {} => page_candidates = <<>>

\* a page with a row before the first header, two headers, and a data row
\* in each of the two sections
C22_Witness ==
    /\ page_pc = "returned"
    /\ Len(page_sections) = 2
    /\ 1 \notin HeaderPositions
    /\ \A p \in DOMAIN page_sections : page_sections[p] # <<>>
    /\ \E c \in Range(page_candidates) : c.section_index = 1

\* ---------------------------------------------------------------------------
\* _propagate_equipment_in_section applied to a section a second time.  The
\* records are those of a section after block assignment: source rows at
\* the top and at the bottom, and empty rows between them in two columns.
\* ---------------------------------------------------------------------------

MaxRepeatRows == 4

RepeatRowUniverse ==
    <<[row_y |-> 100, row_x |-> 100,  model_x |-> 100,  equipment |-> "A"],
      [row_y |-> 100, row_x |-> 1000, model_x |-> 1000, equipment |-> "B"],
      [row_y |-> 200, row_x |-> 100,  model_x |-> 100,  equipment |-> ""],
      [row_y |-> 400, row_x |-> 100,  model_x |-> 100,  equipment |-> ""],
      [row_y |-> 400, row_x |-> 1000, model_x |-> 1000, equipment |-> ""],
      [row_y |-> 450, row_x |-> 100,  model_x |-> 100,  equipment |-> ""],
      [row_y |-> 450, row_x |-> 1000, model_x |-> 1000, equipment |-> ""],
      [row_y |-> 500, row_x |-> 1000, model_x |-> 1000, equipment |-> "B"]>>

RepeatLists ==
    UNION {{[k \in 1..n |-> SectionRow(RepeatRowUniverse[f[k]])] :
               f \in {g \in [1..n -> DOMAIN RepeatRowUniverse] :
                          \A k \in 1..(n - 1) : g[k] < g[k + 1]}} :
           n \in 0..MaxRepeatRows}

\* the records as the section loop has them before the propagation: block
\* indexes assigned from the x clusters of the section
InitRepeat ==
    /\ \E rows \in RepeatLists :
        repeat_rows = _assign_block_indexes_with_centers(
                          rows, _cluster_x_positions(SectionXValues(rows),
                                                     BLOCK_CLUSTER_TOLERANCE))
    /\ repeat_pc = "assigned"
    /\ IdleNotRepeat

\* _propagate_equipment_in_section(section_candidates)
PropagateOnce ==
    /\ repeat_pc = "assigned"
    /\ repeat_rows' = _propagate_equipment_in_section(repeat_rows)
    /\ repeat_pc' = "once"
    /\ UNCHANGED notRepeatVars

\* the same call on the records the first call left
PropagateAgain ==
    /\ repeat_pc = "once"
    /\ repeat_rows' = _propagate_equipment_in_section(repeat_rows)
    /\ repeat_pc' = "twice"
    /\ UNCHANGED notRepeatVars

NextRepeat == PropagateOnce \/ PropagateAgain

SpecRepeat == InitRepeat /\ [][NextRepeat]_vars

\* C27: _propagate_equipment_in_section applied to a section to which it has
\* already been applied changes no record.
C27_SecondPropagationChangesNothing ==
    [][(repeat_pc = "once" /\ repeat_pc' = "twice") => repeat_rows' = repeat_rows]_vars

====
